---- MODULE Spec2Model ----
(***************************************************************************)
(* Task_Manager: the natural-language front end (task_manager.py), the     *)
(* chat router (ai_assistant.py) and the task store (database.py).         *)
(*                                                                         *)
(* Text is a sequence of one-character strings.  A datetime is a record    *)
(* [day, hour, minute, second, microsecond]; day is the ordinal of the     *)
(* calendar date counted from 2024-01-01 (day 0).                          *)
(***************************************************************************)
EXTENDS Integers, Sequences, FiniteSets, TLC

VARIABLES
    clock,      \* what datetime.now() returns when it is read
    utterance,  \* the text handed to the operation
    phase,      \* position of the caller: "ready" or the operation that ran
    intent,     \* result of _classify_intent
    parsed,     \* outcome of parse_natural_language
    db,         \* the tasks table and its AUTOINCREMENT sequence
    response,   \* what process_user_input gave its caller
    store_log,  \* the store calls of the last request, in order
    llm_calls,  \* how often the last request called self.llm
    reference,  \* result of _extract_task_reference, if it was called
    sessions,   \* the store operation each concurrent session is running
    outcome     \* what the last direct call of a TaskManager method gave

vars == <<clock, utterance, phase, intent, parsed, db, response, store_log, llm_calls,
          reference, sessions, outcome>>

----------------------------------------------------------------------------
(* Characters and the str methods the code uses.                           *)

UpperChars == <<"A", "B", "C", "D", "E", "F", "G", "H", "I", "J", "K", "L", "M", "N", "O", "P", "Q", "R", "S", "T", "U", "V", "W", "X", "Y", "Z">>
LowerChars == <<"a", "b", "c", "d", "e", "f", "g", "h", "i", "j", "k", "l", "m", "n", "o", "p", "q", "r", "s", "t", "u", "v", "w", "x", "y", "z">>
DigitChars == <<"0", "1", "2", "3", "4", "5", "6", "7", "8", "9">>

IsDigit(c) == \E k \in 1..Len(DigitChars) : DigitChars[k] = c
IsSpace(c) == c \in {" ", "\t", "\n"}
IsWord(c) ==
    \/ IsDigit(c)
    \/ c = "_"
    \/ \E k \in 1..Len(LowerChars) : LowerChars[k] = c \/ UpperChars[k] = c

DigitVal(c) == (CHOOSE k \in 1..Len(DigitChars) : DigitChars[k] = c) - 1

LowerChar(c) ==
    IF \E k \in 1..Len(UpperChars) : UpperChars[k] = c
    THEN LowerChars[CHOOSE k \in 1..Len(UpperChars) : UpperChars[k] = c]
    ELSE c

\* str.lower()
Lower(t) == [i \in 1..Len(t) |-> LowerChar(t[i])]

\* the literal w stands in t at position i
StartsAt(t, i, w) ==
    /\ i >= 1
    /\ i + Len(w) - 1 <= Len(t)
    /\ \A k \in 1..Len(w) : t[i + k - 1] = w[k]

\* the literal w stands in t at position i, letter case ignored (re.IGNORECASE)
StartsAtI(t, i, w) ==
    /\ i >= 1
    /\ i + Len(w) - 1 <= Len(t)
    /\ \A k \in 1..Len(w) : LowerChar(t[i + k - 1]) = w[k]

\* Python's `w in t`
Contains(t, w) == \E i \in 1..Len(t) : StartsAt(t, i, w)

\* str.strip()
Strip(t) ==
    LET keep == {i \in 1..Len(t) : ~IsSpace(t[i])}
    IN  IF keep = {} THEN <<>>
        ELSE LET lo == CHOOSE i \in keep : \A j \in keep : i <= j
                 hi == CHOOSE i \in keep : \A j \in keep : i >= j
             IN  SubSeq(t, lo, hi)

\* int() of a run of decimal digits
RECURSIVE IntOf(_)
IntOf(ds) ==
    IF ds = <<>> THEN 0
    ELSE 10 * IntOf(SubSeq(ds, 1, Len(ds) - 1)) + DigitVal(ds[Len(ds)])

\* first position >= j of t that holds no whitespace (Len(t)+1 if none): \s*
SkipSpaces(t, j) ==
    CHOOSE k \in j..(Len(t) + 1) :
        /\ \A m \in j..(k - 1) : IsSpace(t[m])
        /\ k = Len(t) + 1 \/ ~IsSpace(t[k])

\* first position >= j of t that holds no digit: \d*
SkipDigits(t, j) ==
    CHOOSE k \in j..(Len(t) + 1) :
        /\ \A m \in j..(k - 1) : IsDigit(t[m])
        /\ k = Len(t) + 1 \/ ~IsDigit(t[k])

\* first position >= j of t that holds no word character: \w*
SkipWord(t, j) ==
    CHOOSE k \in j..(Len(t) + 1) :
        /\ \A m \in j..(k - 1) : IsWord(t[m])
        /\ k = Len(t) + 1 \/ ~IsWord(t[k])

HasDigitAt(t, j) == j >= 1 /\ j <= Len(t) /\ IsDigit(t[j])
HasSpaceAt(t, j) == j >= 1 /\ j <= Len(t) /\ IsSpace(t[j])

Min(S) == CHOOSE x \in S : \A y \in S : x <= y

----------------------------------------------------------------------------
(* datetime, timedelta and isoformat.                                      *)

DateTime(d, h, m, s, us) ==
    [day |-> d, hour |-> h, minute |-> m, second |-> s, microsecond |-> us]

\* datetime <= datetime
DtLeq(a, b) ==
    LET ka == <<a.day, a.hour, a.minute, a.second, a.microsecond>>
        kb == <<b.day, b.hour, b.minute, b.second, b.microsecond>>
    IN  \/ ka = kb
        \/ \E i \in 1..5 : ka[i] < kb[i] /\ \A j \in 1..(i - 1) : ka[j] = kb[j]

\* datetime + timedelta(seconds = secs), secs >= 0
PlusSeconds(dt, secs) ==
    LET total == dt.hour * 3600 + dt.minute * 60 + dt.second + secs
        sod   == total % (24 * 3600)
    IN  DateTime(dt.day + total \div (24 * 3600),
                 sod \div 3600, (sod % 3600) \div 60, sod % 60, dt.microsecond)

\* datetime + timedelta(days = n)
PlusDays(dt, n) == [dt EXCEPT !.day = dt.day + n]

\* datetime.isoformat(): "<date>T<HH>:<MM>:<SS>", followed by ".<ffffff>" only
\* when the microsecond is not 0; the text is kept as its fields
isoformat(dt) ==
    IF dt.microsecond = 0
    THEN <<dt.day, dt.hour, dt.minute, dt.second>>
    ELSE <<dt.day, dt.hour, dt.minute, dt.second, dt.microsecond>>

\* outcomes of a call that returns Optional[str] or raises
None == [kind |-> "None", iso |-> <<>>]
Str(iso) == [kind |-> "str", iso |-> iso]
ValueError == [kind |-> "ValueError", iso |-> <<>>]

\* datetime.replace(hour, minute, second = 0, microsecond = 0) raises ValueError
\* for an hour outside 0..23 or a minute outside 0..59
ReplaceValid(h, m) == h \in 0..23 /\ m \in 0..59

----------------------------------------------------------------------------
(* Temporal Extractor: task_manager.py, _extract_due_date and helpers.     *)

\* re.search result: whether the pattern matched, and its groups as text
NoMatch == [found |-> FALSE, g1 |-> <<>>, g2 |-> <<>>, g3 |-> <<>>]
Match(a, b, c) == [found |-> TRUE, g1 |-> a, g2 |-> b, g3 |-> c]

\* (?:am|pm|AM|PM) stands at position c
AmPmAt(t, c) ==
    \/ StartsAt(t, c, <<"a", "m">>) \/ StartsAt(t, c, <<"p", "m">>)
    \/ StartsAt(t, c, <<"A", "M">>) \/ StartsAt(t, c, <<"P", "M">>)

\* end (exclusive) of the greedy match of \d{1,2}(?::\d{2})? at a digit j
ClockDigitsEnd(t, j) ==
    LET a == IF HasDigitAt(t, j + 1) THEN j + 2 ELSE j + 1
    IN  IF a <= Len(t) /\ t[a] = ":" /\ HasDigitAt(t, a + 1) /\ HasDigitAt(t, a + 2)
        THEN a + 3 ELSE a

\* end (exclusive) of \d{1,2}(?::\d{2})?\s*(?:am|pm|AM|PM)? at a digit j
ClockEnd(t, j) ==
    LET c == SkipSpaces(t, ClockDigitsEnd(t, j))
    IN  IF AmPmAt(t, c) THEN c + 2 ELSE c

\* end (exclusive) of next\s+\w+ at j, 0 when it does not match there
NextWordEnd(t, j) ==
    IF StartsAt(t, j, <<"n", "e", "x", "t">>) /\ HasSpaceAt(t, j + 4)
    THEN LET w == SkipSpaces(t, j + 4)
         IN  IF w <= Len(t) /\ IsWord(t[w]) THEN SkipWord(t, w) ELSE 0
    ELSE 0

\* end (exclusive) of group 1 of by_pattern at j, 0 when no alternative matches
ByGroupEnd(t, j) ==
    IF HasDigitAt(t, j) THEN ClockEnd(t, j)
    ELSE IF StartsAt(t, j, <<"t", "o", "m", "o", "r", "r", "o", "w">>) THEN j + 8
    ELSE IF StartsAt(t, j, <<"t", "o", "d", "a", "y">>) THEN j + 5
    ELSE NextWordEnd(t, j)

\* end (exclusive) of group 1 of at_pattern at j, 0 when no alternative matches
AtGroupEnd(t, j) ==
    IF HasDigitAt(t, j) THEN ClockEnd(t, j)
    ELSE IF StartsAt(t, j, <<"n", "o", "o", "n">>) THEN j + 4
    ELSE IF StartsAt(t, j, <<"m", "i", "d", "n", "i", "g", "h", "t">>) THEN j + 8
    ELSE 0

\* re.search(by_pattern, t):
\* by\s+(\d{1,2}(?::\d{2})?\s*(?:am|pm|AM|PM)?|tomorrow|today|next\s+\w+)
by_search(t) ==
    LET at(i) == /\ StartsAt(t, i, <<"b", "y">>)
                 /\ HasSpaceAt(t, i + 2)
                 /\ ByGroupEnd(t, SkipSpaces(t, i + 2)) # 0
        S == {i \in 1..Len(t) : at(i)}
    IN  IF S = {} THEN NoMatch
        ELSE LET j == SkipSpaces(t, Min(S) + 2)
             IN  Match(SubSeq(t, j, ByGroupEnd(t, j) - 1), <<>>, <<>>)

\* re.search(at_pattern, t):
\* at\s+(\d{1,2}(?::\d{2})?\s*(?:am|pm|AM|PM)?|noon|midnight)
at_search(t) ==
    LET at(i) == /\ StartsAt(t, i, <<"a", "t">>)
                 /\ HasSpaceAt(t, i + 2)
                 /\ AtGroupEnd(t, SkipSpaces(t, i + 2)) # 0
        S == {i \in 1..Len(t) : at(i)}
    IN  IF S = {} THEN NoMatch
        ELSE LET j == SkipSpaces(t, Min(S) + 2)
             IN  Match(SubSeq(t, j, AtGroupEnd(t, j) - 1), <<>>, <<>>)

\* end (exclusive) of (minutes?|hours?|days?) at j, 0 when it does not match
UnitEnd(t, j) ==
    LET base == IF StartsAt(t, j, <<"m", "i", "n", "u", "t", "e">>) THEN j + 6
                ELSE IF StartsAt(t, j, <<"h", "o", "u", "r">>) THEN j + 4
                ELSE IF StartsAt(t, j, <<"d", "a", "y">>) THEN j + 3
                ELSE 0
    IN  IF base # 0 /\ StartsAt(t, base, <<"s">>) THEN base + 1 ELSE base

\* re.search(relative_pattern, t): in\s+(\d+)\s+(minutes?|hours?|days?)
relative_search(t) ==
    LET num(i) == SkipSpaces(t, i + 2)
        unit(i) == SkipSpaces(t, SkipDigits(t, num(i)))
        at(i) == /\ StartsAt(t, i, <<"i", "n">>)
                 /\ HasSpaceAt(t, i + 2)
                 /\ HasDigitAt(t, num(i))
                 /\ HasSpaceAt(t, SkipDigits(t, num(i)))
                 /\ UnitEnd(t, unit(i)) # 0
        S == {i \in 1..Len(t) : at(i)}
    IN  IF S = {} THEN NoMatch
        ELSE LET i == Min(S)
             IN  Match(SubSeq(t, num(i), SkipDigits(t, num(i)) - 1),
                       SubSeq(t, unit(i), UnitEnd(t, unit(i)) - 1), <<>>)

\* re.match(time_pattern, s): (\d{1,2})(?::(\d{2}))?\s*(am|pm)?
time_match(s) ==
    IF ~HasDigitAt(s, 1) THEN NoMatch
    ELSE LET a == IF HasDigitAt(s, 2) THEN 3 ELSE 2
             b == ClockDigitsEnd(s, 1)
             c == SkipSpaces(s, b)
         IN  Match(SubSeq(s, 1, a - 1),
                   IF b > a THEN SubSeq(s, a + 1, b - 1) ELSE <<>>,
                   IF StartsAt(s, c, <<"a", "m">>) \/ StartsAt(s, c, <<"p", "m">>)
                   THEN SubSeq(s, c, c + 1) ELSE <<>>)

\* the 24-hour value of the hour of a clock time (lines 151-154)
To24Hour(hour, period) ==
    IF period = <<"p", "m">> /\ hour # 12 THEN hour + 12
    ELSE IF period = <<"a", "m">> /\ hour = 12 THEN 0
    ELSE hour

\* the clock-time branch rolling forward only when the time is before base_time
ClockTimeStrict(m, base_time) ==
    LET hour   == To24Hour(IntOf(m.g1), m.g3)
        minute == IntOf(m.g2)
    IN  IF ~ReplaceValid(hour, minute) THEN ValueError
        ELSE LET result_time == DateTime(base_time.day, hour, minute, 0, 0)
             IN  IF DtLeq(result_time, base_time) /\ result_time # base_time
                 THEN Str(isoformat(PlusDays(result_time, 1)))
                 ELSE Str(isoformat(result_time))

\* the clock-time branch of _parse_time_expression (lines 145-163)
ClockTime(m, base_time) ==
    LET hour   == To24Hour(IntOf(m.g1), m.g3)
        minute == IntOf(m.g2)
    IN  IF ~ReplaceValid(hour, minute) THEN ValueError
        ELSE LET result_time == DateTime(base_time.day, hour, minute, 0, 0)
             IN  IF DtLeq(result_time, base_time)
                 THEN Str(isoformat(PlusDays(result_time, 1)))
                 ELSE Str(isoformat(result_time))

\* tomorrow that keeps the time of day of base_time
TomorrowSameTime(base_time) == PlusDays(base_time, 1)

\* base_time + timedelta(days=1), replaced to 09:00:00 (lines 126-127)
Tomorrow(base_time) == DateTime(PlusDays(base_time, 1).day, 9, 0, 0, 0)

\* today at 18:00:00, moved to the next day once that moment has passed
TodayRolled(base_time) ==
    IF DtLeq(DateTime(base_time.day, 18, 0, 0, 0), base_time)
    THEN DateTime(base_time.day + 1, 18, 0, 0, 0)
    ELSE DateTime(base_time.day, 18, 0, 0, 0)

\* base_time replaced to 18:00:00 (line 131)
Today(base_time) == DateTime(base_time.day, 18, 0, 0, 0)

\* base_time replaced to 12:00:00 (line 135)
Noon(base_time) == DateTime(base_time.day, 12, 0, 0, 0)

\* base_time replaced to 00:00:00 (line 139)
Midnight(base_time) == DateTime(base_time.day, 0, 0, 0, 0)

_parse_time_expression(time_str0, base_time) ==
    LET time_str == Lower(time_str0)
    IN  IF time_str = <<"t", "o", "m", "o", "r", "r", "o", "w">> THEN Str(isoformat(Tomorrow(base_time)))
        ELSE IF time_str = <<"t", "o", "d", "a", "y">> THEN Str(isoformat(Today(base_time)))
        ELSE IF time_str = <<"n", "o", "o", "n">> THEN Str(isoformat(Noon(base_time)))
        ELSE IF time_str = <<"m", "i", "d", "n", "i", "g", "h", "t">> THEN Str(isoformat(Midnight(base_time)))
        ELSE IF time_match(time_str).found
        THEN ClockTime(time_match(time_str), base_time)
        ELSE None

\* the largest day a datetime can hold: 9999-12-31, counted from 2024-01-01
MaxDateDay == 3652059 - 738886

_calculate_relative_time(amount, unit, base_time) ==
    LET secs == IF StartsAt(unit, 1, <<"m", "i", "n", "u", "t", "e">>) THEN amount * 60
                ELSE IF StartsAt(unit, 1, <<"h", "o", "u", "r">>) THEN amount * 3600
                ELSE 0
        result_time == IF StartsAt(unit, 1, <<"d", "a", "y">>) THEN PlusDays(base_time, amount)
                       ELSE PlusSeconds(base_time, secs)
    IN  IF ~(\/ StartsAt(unit, 1, <<"m", "i", "n", "u", "t", "e">>) \/ StartsAt(unit, 1, <<"h", "o", "u", "r">>)
             \/ StartsAt(unit, 1, <<"d", "a", "y">>))
        THEN None
        ELSE IF result_time.day > MaxDateDay
        THEN [kind |-> "OverflowError", iso |-> <<>>]
        ELSE Str(isoformat(result_time))

\* the extractor trying the at pattern before the by pattern
_extract_due_date_at_first(text, now) ==
    LET by_match == by_search(text)
        at_match == at_search(text)
        relative_match == relative_search(text)
    IN  IF at_match.found
        THEN _parse_time_expression(Strip(at_match.g1), now)
        ELSE IF by_match.found
        THEN _parse_time_expression(Strip(by_match.g1), now)
        ELSE IF relative_match.found
        THEN _calculate_relative_time(IntOf(relative_match.g1), relative_match.g2, now)
        ELSE None

\* text is the lower-cased input; now is datetime.now() (line 82)
_extract_due_date(text, now) ==
    LET by_match == by_search(text)
        at_match == at_search(text)
        relative_match == relative_search(text)
    IN  IF by_match.found
        THEN _parse_time_expression(Strip(by_match.g1), now)
        ELSE IF at_match.found
        THEN _parse_time_expression(Strip(at_match.g1), now)
        ELSE IF relative_match.found
        THEN _calculate_relative_time(IntOf(relative_match.g1), relative_match.g2, now)
        ELSE None

----------------------------------------------------------------------------
(* Attribute Extractor and Title Cleaner: task_manager.py.                 *)

\* self.priority_keywords, in dictionary order (lines 26-30)
priority_keywords ==
    << <<"high", {<<"u", "r", "g", "e", "n", "t">>, <<"a", "s", "a", "p">>, <<"i", "m", "m", "e", "d", "i", "a", "t", "e", "l", "y">>, <<"c", "r", "i", "t", "i", "c", "a", "l">>,
                  <<"i", "m", "p", "o", "r", "t", "a", "n", "t">>, <<"h", "i", "g", "h">>}>>,
       <<"medium", {<<"n", "o", "r", "m", "a", "l">>, <<"r", "e", "g", "u", "l", "a", "r">>, <<"m", "e", "d", "i", "u", "m">>}>>,
       <<"low", {<<"l", "o", "w">>, <<"l", "a", "t", "e", "r">>, <<"w", "h", "e", "n", "e", "v", "e", "r">>, <<"o", "p", "t", "i", "o", "n", "a", "l">>}>> >>

\* the extractor trying the lists in the order low, medium, high
_extract_priority_low_first(text) ==
    LET hit(k) == \E keyword \in priority_keywords[k][2] : Contains(text, keyword)
        S == {k \in 1..Len(priority_keywords) : hit(k)}
    IN  IF S = {} THEN "None" ELSE priority_keywords[CHOOSE k \in S : \A j \in S : k >= j][1]

\* the first priority whose list has a keyword in text, "None" without one
_extract_priority(text) ==
    LET hit(k) == \E keyword \in priority_keywords[k][2] : Contains(text, keyword)
        S == {k \in 1..Len(priority_keywords) : hit(k)}
    IN  IF S = {} THEN "None" ELSE priority_keywords[Min(S)][1]

\* (?:\s+by|\s+at|\s+in|$) matches at position e, letter case ignored
StopAt(t, e) ==
    \/ e = Len(t) + 1
    \/ e = Len(t) /\ t[e] = "\n"
    \/ /\ HasSpaceAt(t, e)
       /\ LET w == SkipSpaces(t, e)
          IN  \/ StartsAtI(t, w, <<"b", "y">>) \/ StartsAtI(t, w, <<"a", "t">>)
              \/ StartsAtI(t, w, <<"i", "n">>)

\* ends (exclusive) the lazy group (.+?) can take when it starts at g
LazyEnds(t, g) ==
    {e \in (g + 1)..(Len(t) + 1) :
        StopAt(t, e) /\ \A m \in g..(e - 1) : t[m] # "\n"}

\* starts of group 1 of  word\s+(.+?)(?:\s+by|\s+at|\s+in|$)  for word at i
LazyStarts(t, i, word) ==
    IF StartsAtI(t, i, word) /\ HasSpaceAt(t, i + Len(word))
    THEN {g \in (i + Len(word) + 1)..SkipSpaces(t, i + Len(word)) :
            g <= Len(t) /\ LazyEnds(t, g) # {}}
    ELSE {}

\* re.search(word\s+(.+?)(?:\s+by|\s+at|\s+in|$), t, re.IGNORECASE)
lazy_search(t, word) ==
    LET S == {i \in 1..Len(t) : LazyStarts(t, i, word) # {}}
    IN  IF S = {} THEN NoMatch
        ELSE LET G == LazyStarts(t, Min(S), word)
                 g == CHOOSE x \in G : \A y \in G : x >= y
             IN  Match(SubSeq(t, g, Min(LazyEnds(t, g)) - 1), <<>>, <<>>)

\* the extractor trying the about pattern before the to pattern
_extract_description_about_first(text) ==
    LET to_match == lazy_search(text, <<"t", "o">>)
        about_match == lazy_search(text, <<"a", "b", "o", "u", "t">>)
    IN  IF about_match.found THEN Strip(about_match.g1)
        ELSE IF to_match.found THEN Strip(to_match.g1)
        ELSE <<>>

_extract_description(text) ==
    LET to_match == lazy_search(text, <<"t", "o">>)
        about_match == lazy_search(text, <<"a", "b", "o", "u", "t">>)
    IN  IF to_match.found THEN Strip(to_match.g1)
        ELSE IF about_match.found THEN Strip(about_match.g1)
        ELSE <<>>

\* (?:am|pm|AM|PM) under re.IGNORECASE
AmPmAtI(t, c) == StartsAtI(t, c, <<"a", "m">>) \/ StartsAtI(t, c, <<"p", "m">>)

\* end (exclusive) of (?:minutes?|hours?|days?) at j under re.IGNORECASE, or 0
UnitEndI(t, j) ==
    LET base == IF StartsAtI(t, j, <<"m", "i", "n", "u", "t", "e">>) THEN j + 6
                ELSE IF StartsAtI(t, j, <<"h", "o", "u", "r">>) THEN j + 4
                ELSE IF StartsAtI(t, j, <<"d", "a", "y">>) THEN j + 3
                ELSE 0
    IN  IF base # 0 /\ StartsAtI(t, base, <<"s">>) THEN base + 1 ELSE base

\* end (exclusive) of  \s+word\s+\d{1,2}(?::\d{2})?\s*(?:am|pm|AM|PM)?  at p, or 0
RemoveClockEnd(t, p, word) ==
    LET w == SkipSpaces(t, p)
        j == SkipSpaces(t, w + 2)
    IN  IF /\ HasSpaceAt(t, p) /\ StartsAtI(t, w, word)
           /\ HasSpaceAt(t, w + 2) /\ HasDigitAt(t, j)
        THEN LET c == SkipSpaces(t, ClockDigitsEnd(t, j))
             IN  IF AmPmAtI(t, c) THEN c + 2 ELSE c
        ELSE 0

\* end (exclusive) of  \s+in\s+\d+\s+(?:minutes?|hours?|days?)  at p, or 0
RemoveRelativeEnd(t, p) ==
    LET w == SkipSpaces(t, p)
        j == SkipSpaces(t, w + 2)
        u == SkipSpaces(t, SkipDigits(t, j))
    IN  IF /\ HasSpaceAt(t, p) /\ StartsAtI(t, w, <<"i", "n">>)
           /\ HasSpaceAt(t, w + 2) /\ HasDigitAt(t, j)
           /\ HasSpaceAt(t, SkipDigits(t, j))
        THEN UnitEndI(t, u)
        ELSE 0

\* end (exclusive) of  \s+word\s+literal  at p, or 0
RemoveLiteralEnd(t, p, word, literal) ==
    LET w == SkipSpaces(t, p)
        j == SkipSpaces(t, w + Len(word))
    IN  IF /\ HasSpaceAt(t, p) /\ StartsAtI(t, w, word)
           /\ HasSpaceAt(t, w + Len(word)) /\ StartsAtI(t, j, literal)
        THEN j + Len(literal)
        ELSE 0

\* end (exclusive) of the k-th of patterns_to_remove at p, or 0 (lines 243-251)
patterns_to_remove(k, t, p) ==
    CASE k = 1 -> RemoveClockEnd(t, p, <<"b", "y">>)
      [] k = 2 -> RemoveClockEnd(t, p, <<"a", "t">>)
      [] k = 3 -> RemoveRelativeEnd(t, p)
      [] k = 4 -> RemoveLiteralEnd(t, p, <<"b", "y">>, <<"t", "o", "m", "o", "r", "r", "o", "w">>)
      [] k = 5 -> RemoveLiteralEnd(t, p, <<"b", "y">>, <<"t", "o", "d", "a", "y">>)
      [] k = 6 -> RemoveLiteralEnd(t, p, <<"a", "t">>, <<"n", "o", "o", "n">>)
      [] k = 7 -> RemoveLiteralEnd(t, p, <<"a", "t">>, <<"m", "i", "d", "n", "i", "g", "h", "t">>)

\* re.sub(pattern k, '', t, flags=re.IGNORECASE), scanning from position p
RECURSIVE re_sub(_, _, _)
re_sub(k, t, p) ==
    IF p > Len(t) THEN <<>>
    ELSE IF patterns_to_remove(k, t, p) # 0
    THEN re_sub(k, t, patterns_to_remove(k, t, p))
    ELSE <<t[p]>> \o re_sub(k, t, p + 1)

RECURSIVE RemoveAll(_, _)
RemoveAll(k, t) ==
    IF k > 7 THEN t ELSE RemoveAll(k + 1, re_sub(k, t, 1))

_clean_title_from_date(original_text) == Strip(RemoveAll(1, original_text))

----------------------------------------------------------------------------
(* Task Parser: task_manager.py, parse_natural_language.                   *)

\* the returned dict, or the exception that leaves the call
Dict(title, due_date, priority, description) ==
    [kind |-> "dict", title |-> title, due_date |-> due_date,
     priority |-> priority, description |-> description]
Raised(exc) ==
    [kind |-> exc, title |-> <<>>, due_date |-> None,
     priority |-> "None", description |-> <<>>]

\* a parser that cleans the title whether or not a due date was found
parse_natural_language_always_clean(user_input, now) ==
    LET input_lower == Lower(user_input)
        due_date == _extract_due_date(input_lower, now)
        priority == _extract_priority(input_lower)
    IN  IF due_date.kind \notin {"None", "str"} THEN Raised(due_date.kind)
        ELSE Dict(_clean_title_from_date(user_input),
                  due_date,
                  IF priority # "None" THEN priority ELSE "medium",
                  _extract_description(user_input))

parse_natural_language(user_input, now) ==
    LET input_lower == Lower(user_input)
        due_date == _extract_due_date(input_lower, now)
        priority == _extract_priority(input_lower)
    IN  IF due_date.kind \notin {"None", "str"} THEN Raised(due_date.kind)
        ELSE Dict(IF due_date.kind = "str"
                  THEN _clean_title_from_date(user_input)
                  ELSE Strip(user_input),
                  due_date,
                  IF priority # "None" THEN priority ELSE "medium",
                  _extract_description(user_input))

----------------------------------------------------------------------------
(* Intent Classifier and Reference Resolver: ai_assistant.py.              *)

create_keywords == {<<"r", "e", "m", "i", "n", "d", " ", "m", "e">>, <<"a", "d", "d">>, <<"c", "r", "e", "a", "t", "e">>, <<"n", "e", "w", " ", "t", "a", "s", "k">>, <<"s", "c", "h", "e", "d", "u", "l", "e">>, <<"s", "e", "t">>}
view_keywords == {<<"s", "h", "o", "w">>, <<"l", "i", "s", "t">>, <<"w", "h", "a", "t">>, <<"t", "a", "s", "k", "s">>, <<"t", "o", "d", "o">>, <<"p", "e", "n", "d", "i", "n", "g">>, <<"d", "u", "e">>}
complete_keywords == {<<"d", "o", "n", "e">>, <<"c", "o", "m", "p", "l", "e", "t", "e">>, <<"f", "i", "n", "i", "s", "h", "e", "d">>, <<"m", "a", "r", "k", " ", "a", "s", " ", "d", "o", "n", "e">>}
delete_keywords == {<<"d", "e", "l", "e", "t", "e">>, <<"r", "e", "m", "o", "v", "e">>, <<"c", "a", "n", "c", "e", "l">>, <<"d", "r", "o", "p">>}

\* any(keyword in user_input for keyword in keywords)
AnyKeyword(keywords, user_input) ==
    \E keyword \in keywords : Contains(user_input, keyword)

\* the classifier with the view keywords tested before the create keywords
_classify_intent_view_first(user_input) ==
    IF AnyKeyword(view_keywords, user_input) THEN "view_tasks"
    ELSE IF AnyKeyword(create_keywords, user_input) THEN "create_task"
    ELSE IF AnyKeyword(complete_keywords, user_input) THEN "complete_task"
    ELSE IF AnyKeyword(delete_keywords, user_input) THEN "delete_task"
    ELSE "general_chat"

\* the classifier without its delete branch
_classify_intent_no_delete(user_input) ==
    IF AnyKeyword(create_keywords, user_input) THEN "create_task"
    ELSE IF AnyKeyword(view_keywords, user_input) THEN "view_tasks"
    ELSE IF AnyKeyword(complete_keywords, user_input) THEN "complete_task"
    ELSE "general_chat"

\* a classifier whose default is an intent process_user_input has no branch for
_classify_intent_unknown_default(user_input) ==
    IF AnyKeyword(create_keywords, user_input) THEN "create_task"
    ELSE IF AnyKeyword(view_keywords, user_input) THEN "view_tasks"
    ELSE IF AnyKeyword(complete_keywords, user_input) THEN "complete_task"
    ELSE IF AnyKeyword(delete_keywords, user_input) THEN "delete_task"
    ELSE "unknown"

\* user_input is the lower-cased utterance (process_user_input, line 84)
_classify_intent(user_input) ==
    IF AnyKeyword(create_keywords, user_input) THEN "create_task"
    ELSE IF AnyKeyword(view_keywords, user_input) THEN "view_tasks"
    ELSE IF AnyKeyword(complete_keywords, user_input) THEN "complete_task"
    ELSE IF AnyKeyword(delete_keywords, user_input) THEN "delete_task"
    ELSE "general_chat"

\* re.search(prefix(\d+), t, re.IGNORECASE) for the k-th of id_patterns:
\* task\s*#?(\d+), #(\d+), (\d+); the digits of group 1, <<>> without a match
id_patterns(k, t) ==
    LET digitsAt(i) ==
            CASE k = 1 -> IF StartsAtI(t, i, <<"t", "a", "s", "k">>)
                          THEN LET h == SkipSpaces(t, i + 4)
                               IN  IF StartsAt(t, h, <<"#">>) /\ HasDigitAt(t, h + 1)
                                   THEN h + 1
                                   ELSE IF HasDigitAt(t, h) THEN h ELSE 0
                          ELSE 0
              [] k = 2 -> IF StartsAt(t, i, <<"#">>) /\ HasDigitAt(t, i + 1)
                          THEN i + 1 ELSE 0
              [] k = 3 -> IF HasDigitAt(t, i) THEN i ELSE 0
        S == {i \in 1..Len(t) : digitsAt(i) # 0}
    IN  IF S = {} THEN <<>>
        ELSE LET d == digitsAt(Min(S))
             IN  SubSeq(t, d, SkipDigits(t, d) - 1)

\* the resolver trying the bare number before the task N and #N forms
_extract_task_reference_bare_first(user_input) ==
    IF id_patterns(3, user_input) # <<>> THEN IntOf(id_patterns(3, user_input))
    ELSE IF id_patterns(1, user_input) # <<>> THEN IntOf(id_patterns(1, user_input))
    ELSE IF id_patterns(2, user_input) # <<>> THEN IntOf(id_patterns(2, user_input))
    ELSE -1

\* the id as an integer, -1 for None
_extract_task_reference(user_input) ==
    IF id_patterns(1, user_input) # <<>> THEN IntOf(id_patterns(1, user_input))
    ELSE IF id_patterns(2, user_input) # <<>> THEN IntOf(id_patterns(2, user_input))
    ELSE IF id_patterns(3, user_input) # <<>> THEN IntOf(id_patterns(3, user_input))
    ELSE -1

----------------------------------------------------------------------------
(* Inputs.                                                                 *)

\* a and b joined by one blank (either may be empty)
Join(a, b) == IF a = <<>> THEN b ELSE IF b = <<>> THEN a ELSE a \o <<" ">> \o b

Heads ==
    {<<>>, <<"r", "e", "m", "i", "n", "d", " ", "m", "e", " ", "t", "o", " ", "c", "a", "l", "l", " ", "m", "o", "m">>, <<"F", "i", "n", "i", "s", "h", " ", "r", "e", "p", "o", "r", "t">>, <<"b", "u", "y", " ", "m", "i", "l", "k">>,
     <<"w", "h", "a", "t", " ", "a", "b", "o", "u", "t", " ", "l", "u", "n", "c", "h">>}

TimeExprs ==
    {<<>>,
     <<"b", "y", " ", "5", " ", "p", "m">>, <<"b", "y", " ", "5">>, <<"b", "y", " ", "2", "5">>, <<"b", "y", " ", "1", "3", " ", "p", "m">>, <<"b", "y", " ", "1", "2", " ", "a", "m">>, <<"b", "y", " ", "1", "2", " ", "P", "M">>,
     <<"b", "y", " ", "3", ":", "3", "0", " ", "p", "m">>, <<"b", "y", " ", "5", ":", "7", "5">>, <<"b", "y", " ", "t", "o", "m", "o", "r", "r", "o", "w">>, <<"b", "y", " ", "t", "o", "d", "a", "y">>, <<"b", "y", " ", "n", "e", "x", "t", " ", "w", "e", "e", "k">>,
     <<"a", "t", " ", "3", " ", "p", "m">>, <<"A", "T", " ", "3", " ", "P", "M">>, <<"a", "t", " ", "n", "o", "o", "n">>, <<"a", "t", " ", "m", "i", "d", "n", "i", "g", "h", "t">>, <<"a", "t", " ", "1", "5">>, <<"a", "t", " ", "2", "4">>,
     <<"a", "t", " ", "0">>, <<"i", "n", " ", "2", " ", "h", "o", "u", "r", "s">>, <<"i", "n", " ", "3", "0", " ", "m", "i", "n", "u", "t", "e", "s">>, <<"i", "n", " ", "1", " ", "d", "a", "y">>, <<"i", "n", " ", "3", " ", "w", "e", "e", "k", "s">>}

MoreExprs ==
    {<<>>, <<"a", "t", " ", "n", "o", "o", "n">>, <<"a", "t", " ", "9">>, <<"b", "y", " ", "t", "o", "d", "a", "y">>, <<"i", "n", " ", "2", " ", "h", "o", "u", "r", "s">>, <<"b", "y", " ", "n", "e", "x", "t", " ", "f", "r", "i", "d", "a", "y">>}

IntentWords ==
    {<<>>, <<"A", "d", "d">>, <<"S", "h", "o", "w">>, <<"d", "o", "n", "e">>, <<"d", "e", "l", "e", "t", "e">>, <<"r", "e", "s", "e", "t">>, <<"w", "h", "a", "t">>,
     <<"t", "a", "s", "k", "s">>, <<"C", "O", "M", "P", "L", "E", "T", "E">>, <<"c", "a", "n", "c", "e", "l">>, <<"h", "e", "l", "l", "o">>, <<"t", "a", "s", "k", " ", "#", "7">>}

\* relative times with small and large amounts and with other units, texts that
\* are only a date phrase, phrases at the start, in the middle and at the end
RelativeTexts ==
    {<<"p", "i", "n", "g", " ", "m", "e", " ", "i", "n", " ", "2", " ", "h", "o", "u", "r", "s">>, <<"i", "n", " ", "1", " ", "m", "i", "n", "u", "t", "e">>, <<"i", "n", " ", "1", " ", "h", "o", "u", "r">>, <<"c", "a", "l", "l", " ", "i", "n", " ", "4", "5", " ", "m", "i", "n", "u", "t", "e", "s">>,
     <<"p", "a", "y", " ", "r", "e", "n", "t", " ", "i", "n", " ", "9", "9", "9", "9", "9", "9", "9", " ", "d", "a", "y", "s">>, <<"i", "n", " ", "2", " ", "h", "o", "u", "r", "g", "l", "a", "s", "s", "e", "s">>, <<"i", "n", " ", "5", " ", "m", "o", "n", "t", "h", "s">>,
     <<"i", "n", " ", "3", " ", "w", "e", "e", "k", "s", " ", "i", "n", " ", "2", " ", "d", "a", "y", "s">>, <<"w", "i", "t", "h", "i", "n", " ", "2", " ", "h", "o", "u", "r", "s">>, <<"I", "n", " ", "2", " ", "H", "o", "u", "r", "s">>}

PhraseTexts ==
    {<<" ", "b", "y", " ", "t", "o", "m", "o", "r", "r", "o", "w">>, <<" ", "a", "t", " ", "n", "o", "o", "n">>, <<" ", " ", "i", "n", " ", "2", " ", "h", "o", "u", "r", "s">>, <<"b", "y", " ", "5", " ", "p", "m", " ", "c", "a", "l", "l", " ", "m", "o", "m">>,
     <<"a", "t", " ", "n", "o", "o", "n", " ", "e", "a", "t", " ", "l", "u", "n", "c", "h">>, <<"i", "n", " ", "2", " ", "h", "o", "u", "r", "s", " ", "l", "e", "a", "v", "e">>, <<"c", "a", "l", "l", " ", "m", "o", "m", " ", "b", "y", " ", "5", " ", "p", "m", " ", "a", "b", "o", "u", "t", " ", "r", "e", "n", "t">>,
     <<"m", "e", "e", "t", " ", "b", "o", "b", " ", "a", "t", " ", "3", " ", "p", "m", " ", "i", "n", " ", "t", "h", "e", " ", "l", "o", "b", "b", "y">>, <<"c", "a", "l", "l", " ", "b", "y", " ", "5", " ", "a", "t", " ", "3">>, <<"x">>,
     <<"C", "a", "l", "l", " ", "B", "o", "b", " ", "B", "Y", " ", "T", "O", "M", "O", "R", "R", "O", "W">>, <<"l", "u", "n", "c", "h", " ", "a", "t", " ", "1", "2", ":", "3", "0", "p", "m">>,
     <<" ", "w", "a", "l", "k", " ", "b", "y", " ", "n", "e", "x", "t", " ", "w", "e", "e", "k", " ", "a", "t", " ", "9", " ">>}

\* texts with priority keywords of one, two and three levels, in either order
PriorityTexts ==
    {<<"t", "h", "i", "s", " ", "i", "s", " ", "u", "r", "g", "e", "n", "t">>, <<"w", "h", "e", "n", "e", "v", "e", "r", " ", "y", "o", "u", " ", "c", "a", "n">>, <<"o", "p", "t", "i", "o", "n", "a", "l", " ", "b", "u", "t", " ", "u", "r", "g", "e", "n", "t">>,
     <<"u", "r", "g", "e", "n", "t", " ", "b", "u", "t", " ", "o", "p", "t", "i", "o", "n", "a", "l">>, <<"l", "a", "t", "e", "r", " ", "a", "t", " ", "a", " ", "n", "o", "r", "m", "a", "l", " ", "p", "a", "c", "e">>, <<"l", "o", "w", " ", "a", "n", "d", " ", "r", "e", "g", "u", "l", "a", "r">>,
     <<"f", "o", "l", "l", "o", "w", " ", "u", "p">>, <<"A", "S", "A", "P", " ", "c", "a", "l", "l", " ", "b", "o", "b", " ", "b", "y", " ", "5", " ", "p", "m">>, <<"m", "e", "d", "i", "u", "m">>,
     <<"w", "h", "e", "n", "e", "v", "e", "r", " ", "n", "o", "r", "m", "a", "l", " ", "i", "m", "p", "o", "r", "t", "a", "n", "t">>, <<"C", "r", "i", "t", "i", "c", "a", "l", " ", "f", "i", "x", " ", "i", "n", " ", "2", " ", "h", "o", "u", "r", "s">>}

\* texts with to and about in either order, inside words, and with none
DescriptionTexts ==
    {<<"t", "a", "l", "k", " ", "a", "b", "o", "u", "t", " ", "p", "l", "a", "n", " ", "t", "o", " ", "c", "a", "l", "l", " ", "b", "o", "b", " ", "b", "y", " ", "5">>, <<"w", "r", "i", "t", "e", " ", "t", "o", " ", "b", "o", "b", " ", "a", "b", "o", "u", "t", " ", "r", "e", "n", "t", " ", "i", "n", " ", "2", " ", "h", "o", "u", "r", "s">>,
     <<"a", "b", "o", "u", "t", " ", "b", "u", "d", "g", "e", "t">>, <<"g", "o", " ", "t", "o">>, <<"p", "h", "o", "t", "o", " ", "s", "h", "o", "o", "t", " ", "i", "n", " ", "p", "a", "r", "k">>, <<"T", "O", " ", "D", "o", " ", "A", "b", "o", "u", "t", " ", "R", "e", "n", "t", " ", "a", "t", " ", "3", " ", "p", "m">>,
     <<"n", "o", "t", "e", " ", "a", "b", "o", "u", "t", " ", "t", "o", "k", "y", "o", " ", "t", "r", "i", "p">>, <<"s", "e", "n", "d", " ", "t", "o", " ", "a", "t", "t", "e", "n", "d", "e", "e", "s">>, <<"g", "o", " ", "t", "o", " ", "t", "h", "e", " ", "i", "n", "s", "i", "d", "e">>,
     <<"t", "h", "i", "n", "k", " ", "A", "b", "o", "u", "t", " ", "L", "u", "n", "c", "h", " ", "A", "t", " ", "N", "o", "o", "n">>, <<"w", "a", "l", "k", " ", "t", "h", "e", " ", "d", "o", "g">>}

\* texts with the task N, #N and bare N forms of a reference, alone and mixed
ReferenceTexts ==
    {<<"t", "a", "s", "k", " ", "3">>, <<"#", "5", " ", "t", "h", "e", "n", " ", "t", "a", "s", "k", " ", "3">>, <<"7", " ", "t", "h", "e", "n", " ", "t", "a", "s", "k", " ", "3">>, <<"d", "o", " ", "1", "2", " ", "a", "n", "d", " ", "#", "4">>, <<"T", "A", "S", "K", "#", "9">>,
     <<"T", "a", "s", "k", " ", " ", "#", "2">>, <<"r", "e", "m", "o", "v", "e", " ", "i", "t", "e", "m">>, <<"t", "a", "s", "k", " ", "0">>, <<"d", "e", "l", "e", "t", "e", " ", "t", "a", "s", "k", " ", "n", "u", "m", "b", "e", "r", " ", "4">>, <<"#">>,
     <<"t", "a", "s", "k", " ", "#", " ", "6">>, <<"t", "a", "s", "k", "s", " ", "8">>, <<"m", "a", "r", "k", " ", "t", "a", "s", "k", " ", "1", " ", "a", "s", " ", "d", "o", "n", "e">>, <<"f", "i", "n", "i", "s", "h", " ", "2", " ", "t", "h", "e", "n", " ", "#", "1", "0">>}

Texts ==
    {Join(Join(h, e), f) : h \in Heads, e \in TimeExprs, f \in MoreExprs}
    \cup {Join(v, w) : v \in IntentWords, w \in IntentWords}
    \cup RelativeTexts \cup PhraseTexts \cup PriorityTexts \cup DescriptionTexts
    \cup ReferenceTexts

\* the moments the clock is read at, on day 0 (2024-01-01)
Instants ==
    {DateTime(0, 0, 0, 0, 0), DateTime(0, 10, 0, 0, 0), DateTime(0, 15, 0, 0, 0),
     DateTime(0, 15, 0, 0, 500000), DateTime(0, 18, 30, 0, 0),
     DateTime(0, 23, 59, 59, 999999)}

\* what the chat surface sends to the assistant
Utterances ==
    {<<"R", "e", "m", "i", "n", "d", " ", "m", "e", " ", "t", "o", " ", "c", "a", "l", "l", " ", "m", "o", "m", " ", "a", "t", " ", "3", " ", "p", "m">>, <<"a", "d", "d", " ", "b", "u", "y", " ", "m", "i", "l", "k">>, <<"s", "c", "h", "e", "d", "u", "l", "e", " ", "s", "y", "n", "c", " ", "b", "y", " ", "2", "5">>,
     <<"s", "h", "o", "w", " ", "m", "y", " ", "t", "a", "s", "k", "s">>, <<"m", "a", "r", "k", " ", "t", "a", "s", "k", " ", "1", " ", "a", "s", " ", "d", "o", "n", "e">>, <<"f", "i", "n", "i", "s", "h", "e", "d", " ", "2">>,
     <<"d", "e", "l", "e", "t", "e", " ", "t", "a", "s", "k", " ", "#", "1">>, <<"r", "e", "m", "o", "v", "e", " ", "i", "t", "e", "m">>, <<"c", "a", "n", "c", "e", "l", " ", "3">>, <<"h", "e", "l", "l", "o", " ", "t", "h", "e", "r", "e">>,
     <<"m", "a", "r", "k", " ", "t", "a", "s", "k", " ", "0", " ", "a", "s", " ", "d", "o", "n", "e">>}

\* parse_natural_language(u) called at moment c, _classify_intent(u.lower()) and
\* _extract_task_reference(u), tabulated over the requests the handlers serve
ParsedAt == [u \in Utterances, c \in Instants |-> parse_natural_language(u, c)]
IntentOf == [u \in Utterances |-> _classify_intent(Lower(u))]
RefOf == [u \in Utterances |-> _extract_task_reference(u)]

----------------------------------------------------------------------------
(* Task Store: database.py.  A row keeps the columns the operations read   *)
(* and write: title, description, due_date, priority, status.              *)

EmptyDb == [tasks |-> <<>>, seq |-> 0]

Ids(d) == DOMAIN d.tasks

\* an INSERT into a table whose id is INTEGER PRIMARY KEY without AUTOINCREMENT:
\* one more than the largest id stored now
add_task_rowid(d, title, description, due_date, priority) ==
    LET id == IF Ids(d) = {} THEN 1
              ELSE (CHOOSE m \in Ids(d) : \A i \in Ids(d) : i <= m) + 1
        row == [title |-> title, description |-> description,
                due_date |-> due_date, priority |-> priority,
                status |-> "pending"]
    IN  [db |-> [tasks |-> [i \in Ids(d) \cup {id} |->
                               IF i = id THEN row ELSE d.tasks[i]],
                 seq |-> id],
         lastrowid |-> id]

\* INSERT INTO tasks (title, description, due_date, priority); status takes
\* its DEFAULT 'pending', id is AUTOINCREMENT: one more than any id ever used
add_task(d, title, description, due_date, priority) ==
    LET id == d.seq + 1
        row == [title |-> title, description |-> description,
                due_date |-> due_date, priority |-> priority,
                status |-> "pending"]
    IN  [db |-> [tasks |-> [i \in Ids(d) \cup {id} |->
                               IF i = id THEN row ELSE d.tasks[i]],
                 seq |-> id],
         lastrowid |-> id]

\* an UPDATE that reports a changed row whether or not the id matched one
update_task_status_always_true(d, task_id, status) ==
    IF task_id \in Ids(d)
    THEN [db |-> [d EXCEPT !.tasks[task_id].status = status], ok |-> TRUE]
    ELSE [db |-> d, ok |-> TRUE]

\* an UPDATE that flips the status of a row that already has the new status
update_task_status_toggle(d, task_id, status) ==
    IF task_id \in Ids(d)
    THEN [db |-> [d EXCEPT !.tasks[task_id].status =
                      IF @ = status THEN "pending" ELSE status],
          ok |-> TRUE]
    ELSE [db |-> d, ok |-> FALSE]

\* UPDATE tasks SET status = ? WHERE id = ?; rowcount > 0
update_task_status(d, task_id, status) ==
    IF task_id \in Ids(d)
    THEN [db |-> [d EXCEPT !.tasks[task_id].status = status], ok |-> TRUE]
    ELSE [db |-> d, ok |-> FALSE]

\* an UPDATE of the priority that also sets the status back to pending
update_task_priority_reopening(d, task_id, priority) ==
    IF task_id \in Ids(d)
    THEN [db |-> [d EXCEPT !.tasks[task_id].priority = priority,
                           !.tasks[task_id].status = "pending"],
          ok |-> TRUE]
    ELSE [db |-> d, ok |-> FALSE]

\* UPDATE tasks SET priority = ? WHERE id = ?; rowcount > 0
update_task_priority(d, task_id, priority) ==
    IF task_id \in Ids(d)
    THEN [db |-> [d EXCEPT !.tasks[task_id].priority = priority], ok |-> TRUE]
    ELSE [db |-> d, ok |-> FALSE]

\* DELETE FROM tasks WHERE id = ?; rowcount > 0
delete_task(d, task_id) ==
    IF task_id \in Ids(d)
    THEN [db |-> [d EXCEPT !.tasks = [i \in Ids(d) \ {task_id} |-> d.tasks[i]]],
          ok |-> TRUE]
    ELSE [db |-> d, ok |-> FALSE]

\* SELECT * FROM tasks [WHERE status = ?]: the ids of the rows, "" for no filter
get_tasks(d, status) ==
    {i \in Ids(d) : status = "" \/ d.tasks[i].status = status}

\* a < b for two isoformat texts, as SQLite compares TEXT (byte by byte)
IsoLess(a, b) ==
    \/ \E i \in 1..Len(a) : /\ i <= Len(b) /\ a[i] < b[i]
                            /\ \A j \in 1..(i - 1) : a[j] = b[j]
    \/ Len(a) < Len(b) /\ \A j \in 1..Len(a) : a[j] = b[j]

\* a query for the overdue tasks that leaves out the status condition
get_overdue_tasks_any_status(d, now) ==
    {i \in Ids(d) : /\ d.tasks[i].due_date.kind = "str"
                    /\ IsoLess(d.tasks[i].due_date.iso, isoformat(now))}

\* WHERE due_date < now.isoformat() AND status = 'pending'
get_overdue_tasks(d, now) ==
    {i \in Ids(d) : /\ d.tasks[i].due_date.kind = "str"
                    /\ IsoLess(d.tasks[i].due_date.iso, isoformat(now))
                    /\ d.tasks[i].status = "pending"}

\* WHERE date(due_date) = now.strftime("%Y-%m-%d") AND status = 'pending'
get_tasks_due_today(d, now) ==
    {i \in Ids(d) : /\ d.tasks[i].due_date.kind = "str"
                    /\ d.tasks[i].due_date.iso[1] = now.day
                    /\ d.tasks[i].status = "pending"}

\* the dict get_tasks_summary returns (task_manager.py 295-304): the five
\* counts and the three lists, a list as the ids of its rows
Summary(all_tasks, pending_tasks, completed_tasks, overdue_tasks, today_tasks) ==
    [total |-> Cardinality(all_tasks),
     pending |-> Cardinality(pending_tasks),
     completed |-> Cardinality(completed_tasks),
     overdue |-> Cardinality(overdue_tasks),
     due_today |-> Cardinality(today_tasks),
     pending_tasks |-> pending_tasks,
     overdue_tasks |-> overdue_tasks,
     today_tasks |-> today_tasks]

\* task_manager.py, get_tasks_summary, its five queries answered by one store
get_tasks_summary(d, now) ==
    Summary(get_tasks(d, ""), get_tasks(d, "pending"), get_tasks(d, "completed"),
            get_overdue_tasks(d, now), get_tasks_due_today(d, now))

\* the sessions that use the same database file, each with its own TaskDatabase
\* and its own connection per call (get_connection, lines 28-39)
Sessions == {1, 2}

\* what a store method returns: the bool of update_task and delete_task, the
\* lastrowid of add_task
Returned(ok, lastrowid) == [ok |-> ok, lastrowid |-> lastrowid]

\* a session that is not inside a store call
Idle == [pc |-> "idle", op |-> "", task_id |-> 0, pending |-> EmptyDb,
         result |-> Returned(FALSE, 0)]

\* conn.execute(...) of add_task, update_task(status = 'completed') and
\* delete_task on the database d: the database it leaves and what the method
\* returns after its commit
Statement(d, op, task_id) ==
    CASE op = "add_task" ->
             LET added == add_task(d, <<"n", "e", "w">>, <<>>, None, "medium")
             IN  [db |-> added.db, result |-> Returned(TRUE, added.lastrowid)]
      [] op = "update_task" ->
             LET updated == update_task_status(d, task_id, "completed")
             IN  [db |-> updated.db, result |-> Returned(updated.ok, 0)]
      [] op = "delete_task" ->
             LET deleted == delete_task(d, task_id)
             IN  [db |-> deleted.db, result |-> Returned(deleted.ok, 0)]

NoSummary == Summary({}, {}, {}, {}, {})

\* what a direct call of a TaskManager method gave its caller: the value it
\* returned (kind "return") or the exception that left it
Outcome(kind, op, task_id, value, summary) ==
    [kind |-> kind, op |-> op, task_id |-> task_id, value |-> value, summary |-> summary]

NoOutcome == Outcome("NotCalled", "", 0, Returned(FALSE, 0), NoSummary)

----------------------------------------------------------------------------
(* Chat router: ai_assistant.py, process_user_input and its handlers.      *)
(* A handler's result is the store it leaves, the response it returns, the *)
(* store calls it made and the number of LLM calls.  fault = k > 0 makes   *)
(* the k-th store call of the request raise (sqlite3.Error); llm_ok = FALSE*)
(* makes self.llm(messages) raise.                                         *)

Response(action, message, task_id, summary) ==
    [kind |-> "return", action |-> action, message |-> message,
     task_id |-> task_id, summary |-> summary]

\* a store call: the method, the task id it was given (0 for a call that
\* takes none) and whether it returned (TRUE) or raised (FALSE)
CallOn(op, task_id, ok) == [op |-> op, task_id |-> task_id, ok |-> ok]
Call(op, ok) == CallOn(op, 0, ok)

\* what _extract_task_reference returned: an id, -1 for None; NotConsulted
\* when the handler did not call it
NotConsulted == 0 - 2

Result(d, r, log, llm) ==
    [db |-> d, response |-> r, store_log |-> log, llm_calls |-> llm,
     reference |-> NotConsulted]

\* the result of a handler that called _extract_task_reference
Resolved(task_id, result) == [result EXCEPT !.reference = task_id]

\* the message _generate_ai_response returns: the model's text, or the apology
\* of its except clause (lines 378-397); it never raises
_generate_ai_response(llm_ok) == IF llm_ok THEN "llm_text" ELSE "llm_unavailable"

\* add_task_from_natural_language (task_manager.py 259-280), its input parsed
add_task_from_natural_language(parsed_task, d) ==
    add_task(d, parsed_task.title, parsed_task.description,
             parsed_task.due_date, parsed_task.priority)

\* a create handler that asks the LLM first and gives up, storing nothing,
\* when the LLM fails
CreateTask_llm_first(parsed_task, d, fault, llm_ok) ==
    LET added == add_task_from_natural_language(parsed_task, d)
    IN  IF ~llm_ok
        THEN Result(d, Response("error", "create_failed", 0, NoSummary), <<>>, 1)
        ELSE IF parsed_task.kind # "dict"
        THEN Result(d, Response("error", "create_failed", 0, NoSummary), <<>>, 1)
        ELSE IF fault = 1
        THEN Result(d, Response("error", "create_failed", 0, NoSummary),
                    <<Call("add_task", FALSE)>>, 1)
        ELSE IF fault = 2
        THEN Result(added.db, Response("error", "create_failed", 0, NoSummary),
                    <<Call("add_task", TRUE),
                      CallOn("get_task_by_id", added.lastrowid, FALSE)>>, 1)
        ELSE Result(added.db,
                    Response("task_created", _generate_ai_response(llm_ok),
                             added.lastrowid, NoSummary),
                    <<Call("add_task", TRUE),
                      CallOn("get_task_by_id", added.lastrowid, TRUE)>>, 1)

\* the body of _handle_create_task once the input is parsed: parsed_task is
\* the dict parse_natural_language returned, or the exception it raised
CreateTask(parsed_task, d, fault, llm_ok) ==
    LET added == add_task_from_natural_language(parsed_task, d)
    IN  IF parsed_task.kind # "dict"
        THEN Result(d, Response("error", "create_failed", 0, NoSummary), <<>>, 0)
        ELSE IF fault = 1
        THEN Result(d, Response("error", "create_failed", 0, NoSummary),
                    <<Call("add_task", FALSE)>>, 0)
        ELSE IF fault = 2
        THEN Result(added.db, Response("error", "create_failed", 0, NoSummary),
                    <<Call("add_task", TRUE),
                      CallOn("get_task_by_id", added.lastrowid, FALSE)>>, 0)
        ELSE Result(added.db,
                    Response("task_created", _generate_ai_response(llm_ok),
                             added.lastrowid, NoSummary),
                    <<Call("add_task", TRUE),
                      CallOn("get_task_by_id", added.lastrowid, TRUE)>>, 1)

_handle_create_task(user_input, now, d, fault, llm_ok) ==
    CreateTask(ParsedAt[user_input, now], d, fault, llm_ok)

\* the five queries of get_tasks_summary, in order (task_manager.py 289-293)
SummaryCalls ==
    <<"get_tasks", "get_tasks", "get_tasks", "get_overdue_tasks", "get_tasks_due_today">>

\* a view handler that asks the LLM to word the summary
_handle_view_tasks_llm(user_input, now, d, fault, llm_ok) ==
    IF fault \in 1..Len(SummaryCalls)
    THEN Result(d, Response("error", "view_failed", 0, NoSummary),
                [k \in 1..fault |-> Call(SummaryCalls[k], k < fault)], 0)
    ELSE Result(d, Response("tasks_displayed", _generate_ai_response(llm_ok), 0,
                            get_tasks_summary(d, now)),
                [k \in 1..Len(SummaryCalls) |-> Call(SummaryCalls[k], TRUE)], 1)

_handle_view_tasks(user_input, now, d, fault, llm_ok) ==
    IF fault \in 1..Len(SummaryCalls)
    THEN Result(d, Response("error", "view_failed", 0, NoSummary),
                [k \in 1..fault |-> Call(SummaryCalls[k], k < fault)], 0)
    ELSE Result(d, Response("tasks_displayed", "summary_text", 0,
                            get_tasks_summary(d, now)),
                [k \in 1..Len(SummaryCalls) |-> Call(SummaryCalls[k], TRUE)], 0)

_handle_complete_task(user_input, now, d, fault, llm_ok) ==
    LET task_id == RefOf[user_input]
        updated == update_task_status(d, task_id, "completed")
    IN  Resolved(task_id,
        IF task_id = -1 \/ task_id = 0
        THEN Result(d, Response("error", "not_identified", 0, NoSummary), <<>>, 0)
        ELSE IF fault = 1
        THEN Result(d, Response("error", "complete_failed", 0, NoSummary),
                    <<CallOn("update_task", task_id, FALSE)>>, 0)
        ELSE IF updated.ok
        THEN Result(updated.db, Response("task_completed", "completed_text",
                                         task_id, NoSummary),
                    <<CallOn("update_task", task_id, TRUE)>>, 0)
        ELSE Result(d, Response("error", "not_found", 0, NoSummary),
                    <<CallOn("update_task", task_id, TRUE)>>, 0))

\* a delete handler that runs the DELETE again after a store failure
_handle_delete_task_retry(user_input, now, d, fault, llm_ok) ==
    LET task_id == RefOf[user_input]
        deleted == delete_task(d, task_id)
        log == IF fault = 1
               THEN <<CallOn("delete_task", task_id, FALSE),
                      CallOn("delete_task", task_id, TRUE)>>
               ELSE <<CallOn("delete_task", task_id, TRUE)>>
    IN  Resolved(task_id,
        IF task_id = -1 \/ task_id = 0
        THEN Result(d, Response("error", "not_identified", 0, NoSummary), <<>>, 0)
        ELSE IF deleted.ok
        THEN Result(deleted.db, Response("task_deleted", "deleted_text",
                                         task_id, NoSummary), log, 0)
        ELSE Result(d, Response("error", "not_found", 0, NoSummary), log, 0))

_handle_delete_task(user_input, now, d, fault, llm_ok) ==
    LET task_id == RefOf[user_input]
        deleted == delete_task(d, task_id)
    IN  Resolved(task_id,
        IF task_id = -1 \/ task_id = 0
        THEN Result(d, Response("error", "not_identified", 0, NoSummary), <<>>, 0)
        ELSE IF fault = 1
        THEN Result(d, Response("error", "delete_failed", 0, NoSummary),
                    <<CallOn("delete_task", task_id, FALSE)>>, 0)
        ELSE IF deleted.ok
        THEN Result(deleted.db, Response("task_deleted", "deleted_text",
                                         task_id, NoSummary),
                    <<CallOn("delete_task", task_id, TRUE)>>, 0)
        ELSE Result(d, Response("error", "not_found", 0, NoSummary),
                    <<CallOn("delete_task", task_id, TRUE)>>, 0))

\* a chat handler that deletes the first task before it answers
_handle_general_chat_deleting(user_input, now, d, fault, llm_ok) ==
    Result(delete_task(d, 1).db,
           Response("general_response", _generate_ai_response(llm_ok), 0, NoSummary),
           <<>>, 1)

_handle_general_chat(user_input, now, d, fault, llm_ok) ==
    Result(d, Response("general_response", _generate_ai_response(llm_ok), 0, NoSummary),
           <<>>, 1)

_handle_unknown_request(user_input, now, d, fault, llm_ok) ==
    Result(d, Response("clarification_needed", "help_text", 0, NoSummary), <<>>, 0)

\* the handler process_user_input hands the request to (lines 90-101)
Dispatch(the_intent, user_input, now, d, fault, llm_ok) ==
    IF the_intent = "create_task"
    THEN _handle_create_task(user_input, now, d, fault, llm_ok)
    ELSE IF the_intent = "view_tasks"
    THEN _handle_view_tasks(user_input, now, d, fault, llm_ok)
    ELSE IF the_intent = "complete_task"
    THEN _handle_complete_task(user_input, now, d, fault, llm_ok)
    ELSE IF the_intent = "delete_task"
    THEN _handle_delete_task(user_input, now, d, fault, llm_ok)
    ELSE IF the_intent = "general_chat"
    THEN _handle_general_chat(user_input, now, d, fault, llm_ok)
    ELSE _handle_unknown_request(user_input, now, d, fault, llm_ok)

----------------------------------------------------------------------------
(* The parser and the classifier applied to one text at one moment.        *)

NoParse == Raised("NotCalled")
NoResponse == [kind |-> "NotCalled", action |-> "", message |-> "", task_id |-> 0,
               summary |-> NoSummary]

ParseInit ==
    /\ clock \in Instants
    /\ utterance \in Texts
    /\ phase = "ready"
    /\ intent = "NotCalled"
    /\ parsed = NoParse
    /\ db = EmptyDb
    /\ response = NoResponse
    /\ store_log = <<>>
    /\ llm_calls = 0
    /\ reference = NotConsulted
    /\ sessions = [s \in Sessions |-> Idle]
    /\ outcome = NoOutcome

\* process_user_input, lines 83-87: lower-case, then classify
Classify ==
    /\ phase = "ready"
    /\ intent' = _classify_intent(Lower(utterance))
    /\ phase' = "classified"
    /\ UNCHANGED <<clock, utterance, parsed, db, response, store_log, llm_calls,
                   reference, sessions, outcome>>

\* parse_natural_language(utterance); datetime.now() is read inside
Parse ==
    /\ phase = "ready"
    /\ parsed' = parse_natural_language(utterance, clock)
    /\ phase' = "parsed"
    /\ UNCHANGED <<clock, utterance, intent, db, response, store_log, llm_calls,
                   reference, sessions, outcome>>

\* _extract_task_reference(utterance)
Resolve ==
    /\ phase = "ready"
    /\ reference' = _extract_task_reference(utterance)
    /\ phase' = "resolved"
    /\ UNCHANGED <<clock, utterance, intent, parsed, db, response, store_log,
                   llm_calls, sessions, outcome>>

ParseNext == Classify \/ Parse \/ Resolve

ParseSpec == ParseInit /\ [][ParseNext]_vars

----------------------------------------------------------------------------
(* The parser called a second time with the same text: the caller passes   *)
(* only user_input, and _extract_due_date reads datetime.now() (line 82)   *)
(* at each call.                                                           *)

\* time passes between the two calls
Wait ==
    /\ phase = "parsed"
    /\ \E later \in Instants :
        /\ later # clock
        /\ DtLeq(clock, later)
        /\ clock' = later
    /\ phase' = "waited"
    /\ UNCHANGED <<utterance, intent, parsed, db, response, store_log, llm_calls,
                   reference, sessions, outcome>>

\* parse_natural_language(utterance) once more
Reparse ==
    /\ phase \in {"parsed", "waited"}
    /\ parsed' = parse_natural_language(utterance, clock)
    /\ phase' = "reparsed"
    /\ UNCHANGED <<clock, utterance, intent, db, response, store_log, llm_calls,
                   reference, sessions, outcome>>

ReparseNext == Parse \/ Wait \/ Reparse

ReparseSpec == ParseInit /\ [][ReparseNext]_vars

----------------------------------------------------------------------------
(* The assistant serving chat requests against the store.                  *)

\* the most ids the store hands out in one run
MaxTasks == 2

\* the store calls a handler can make, and whether it can call the LLM
StoreCallsOf(the_intent) ==
    CASE the_intent = "create_task" -> 2
      [] the_intent = "view_tasks" -> Len(SummaryCalls)
      [] the_intent \in {"complete_task", "delete_task"} -> 1
      [] OTHER -> 0

Init ==
    /\ clock = DateTime(0, 10, 0, 0, 0)
    /\ utterance = <<>>
    /\ phase = "ready"
    /\ intent = "NotCalled"
    /\ parsed = NoParse
    /\ db = EmptyDb
    /\ response = NoResponse
    /\ store_log = <<>>
    /\ llm_calls = 0
    /\ reference = NotConsulted
    /\ sessions = [s \in Sessions |-> Idle]
    /\ outcome = NoOutcome

\* time passes between requests
Tick ==
    /\ \E later \in Instants :
        /\ later # clock
        /\ DtLeq(clock, later)
        /\ clock' = later
    /\ UNCHANGED <<utterance, phase, intent, parsed, db, response, store_log, llm_calls,
                   reference, sessions, outcome>>

\* one call of process_user_input (ai_assistant.py 73-101)
process_user_input ==
    \E user_input \in Utterances :
        \E the_intent \in {IntentOf[user_input]} :
            \E fault \in 0..StoreCallsOf(the_intent), llm_ok \in BOOLEAN :
                \E r \in {Dispatch(the_intent, user_input, clock, db, fault, llm_ok)} :
                    /\ r.db.seq <= MaxTasks
                    /\ utterance' = user_input
                    /\ intent' = the_intent
                    /\ db' = r.db
                    /\ response' = r.response
                    /\ store_log' = r.store_log
                    /\ llm_calls' = r.llm_calls
                    /\ reference' = r.reference
                    /\ UNCHANGED <<clock, phase, parsed, sessions, outcome>>

Next == process_user_input \/ Tick

Spec == Init /\ [][Next]_vars

----------------------------------------------------------------------------
(* The methods of TaskManager called directly, as the task list and the    *)
(* add-task form of app.py do, between the requests of the chat.           *)

\* the ids a caller passes: those the store can hold and one it never holds
CallerIds == 1..(MaxTasks + 1)

\* add_task_from_natural_language(user_input), task_manager.py 259-280
TaskManager_add_task_from_natural_language ==
    \E user_input \in {u \in Utterances : IntentOf[u] = "create_task"} :
        \E parsed_task \in {ParsedAt[user_input, clock]} :
            /\ db.seq < MaxTasks
            /\ IF parsed_task.kind = "dict"
               THEN \E added \in {add_task_from_natural_language(parsed_task, db)} :
                        /\ db' = added.db
                        /\ outcome' = Outcome("return", "add_task_from_natural_language",
                                               0, Returned(TRUE, added.lastrowid), NoSummary)
               ELSE /\ db' = db
                    /\ outcome' = Outcome(parsed_task.kind, "add_task_from_natural_language",
                                           0, Returned(FALSE, 0), NoSummary)
            /\ utterance' = user_input
            /\ UNCHANGED <<clock, phase, intent, parsed, response, store_log, llm_calls,
                           reference, sessions>>

\* mark_task_complete(task_id), task_manager.py 306-316
TaskManager_mark_task_complete ==
    \E task_id \in CallerIds :
        \E updated \in {update_task_status(db, task_id, "completed")} :
            /\ db' = updated.db
            /\ outcome' = Outcome("return", "mark_task_complete", task_id,
                                   Returned(updated.ok, 0), NoSummary)
            /\ UNCHANGED <<clock, utterance, phase, intent, parsed, response, store_log,
                           llm_calls, reference, sessions>>

\* delete_task(task_id), task_manager.py 318-328
TaskManager_delete_task ==
    \E task_id \in CallerIds :
        \E deleted \in {delete_task(db, task_id)} :
            /\ db' = deleted.db
            /\ outcome' = Outcome("return", "delete_task", task_id,
                                   Returned(deleted.ok, 0), NoSummary)
            /\ UNCHANGED <<clock, utterance, phase, intent, parsed, response, store_log,
                           llm_calls, reference, sessions>>

\* update_task_priority(task_id, priority), task_manager.py 330-341
TaskManager_update_task_priority ==
    \E task_id \in CallerIds, priority \in {"high"} :
        \E updated \in {update_task_priority(db, task_id, priority)} :
            /\ db' = updated.db
            /\ outcome' = Outcome("return", "update_task_priority", task_id,
                                   Returned(updated.ok, 0), NoSummary)
            /\ UNCHANGED <<clock, utterance, phase, intent, parsed, response, store_log,
                           llm_calls, reference, sessions>>

\* get_tasks_summary(), task_manager.py 282-304, with no other session writing
TaskManager_get_tasks_summary ==
    /\ outcome' = Outcome("return", "get_tasks_summary", 0, Returned(TRUE, 0),
                           get_tasks_summary(db, clock))
    /\ UNCHANGED <<clock, utterance, phase, intent, parsed, db, response, store_log,
                   llm_calls, reference, sessions>>

ManagerNext ==
    \/ TaskManager_add_task_from_natural_language
    \/ TaskManager_mark_task_complete
    \/ TaskManager_delete_task
    \/ TaskManager_update_task_priority
    \/ TaskManager_get_tasks_summary
    \/ Tick

ManagerSpec == Init /\ [][ManagerNext]_vars

----------------------------------------------------------------------------
(* Sessions writing to the same database file.  Each store method opens    *)
(* its own connection, runs one statement and commits (database.py 75-81,  *)
(* 174-184, 195-200).  The statement opens the connection's transaction    *)
(* and takes the write lock of the file, which is held until the commit; a *)
(* statement that cannot get the lock within the connect timeout raises    *)
(* sqlite3.OperationalError (database is locked).                          *)

\* the store the sessions start on: two pending tasks, ids 1 and 2
StoreStart ==
    add_task(add_task(EmptyDb, <<"o", "n", "e">>, <<>>, None, "medium").db,
             <<"t", "w", "o">>, <<>>, None, "high").db

\* the calls a session makes: add_task, and update_task / delete_task on the
\* ids of the two tasks and on an id that is not stored
StoreCalls ==
    {<<"add_task", 0>>}
    \cup {<<op, task_id>> : op \in {"update_task", "delete_task"}, task_id \in {1, 2, 3}}

\* a mutant of WriteLockFree: statements never wait for the lock
NoWriteLock(s) == TRUE

\* no other connection is between its statement and its commit
WriteLockFree(s) == \A o \in Sessions \ {s} : sessions[o].pc # "executed"

StoreInit ==
    /\ clock = DateTime(0, 10, 0, 0, 0)
    /\ utterance = <<>>
    /\ phase = "ready"
    /\ intent = "NotCalled"
    /\ parsed = NoParse
    /\ db = StoreStart
    /\ response = NoResponse
    /\ store_log = <<>>
    /\ llm_calls = 0
    /\ reference = NotConsulted
    /\ sessions = [s \in Sessions |-> Idle]
    /\ outcome = NoOutcome

\* conn.execute(INSERT / UPDATE / DELETE): the change is in the connection's
\* transaction and not yet in the file
Execute(s) ==
    /\ sessions[s].pc = "idle"
    /\ WriteLockFree(s)
    /\ \E call \in StoreCalls :
           sessions' = [sessions EXCEPT ![s] =
               [pc |-> "executed", op |-> call[1], task_id |-> call[2],
                pending |-> Statement(db, call[1], call[2]).db,
                result |-> Statement(db, call[1], call[2]).result]]
    /\ UNCHANGED <<clock, utterance, phase, intent, parsed, db, response, store_log,
                   llm_calls, reference, outcome>>

\* conn.commit() and the return of rowcount > 0 / lastrowid
Commit(s) ==
    /\ sessions[s].pc = "executed"
    /\ db' = sessions[s].pending
    /\ sessions' = [sessions EXCEPT ![s].pc = "returned", ![s].pending = EmptyDb]
    /\ UNCHANGED <<clock, utterance, phase, intent, parsed, response, store_log,
                   llm_calls, reference, outcome>>

\* conn.execute(...) gives up waiting for the lock and raises
Busy(s) ==
    /\ sessions[s].pc = "idle"
    /\ ~WriteLockFree(s)
    /\ \E call \in StoreCalls :
           sessions' = [sessions EXCEPT ![s] =
               [pc |-> "raised", op |-> call[1], task_id |-> call[2],
                pending |-> EmptyDb, result |-> Returned(FALSE, 0)]]
    /\ UNCHANGED <<clock, utterance, phase, intent, parsed, db, response, store_log,
                   llm_calls, reference, outcome>>

StoreNext == \E s \in Sessions : Execute(s) \/ Commit(s) \/ Busy(s)

StoreSpec == StoreInit /\ [][StoreNext]_vars

----------------------------------------------------------------------------
(* get_tasks_summary running while other sessions write to the same file.  *)
(* Each of its five queries opens its own connection and reads what is     *)
(* committed at that moment (task_manager.py 289-293).                     *)

\* the k-th query of get_tasks_summary answered by the store d and put into the
\* summary s under construction
ReadQuery(k, s, d, now) ==
    CASE k = 1 -> [s EXCEPT !.total = Cardinality(get_tasks(d, ""))]
      [] k = 2 -> [s EXCEPT !.pending = Cardinality(get_tasks(d, "pending")),
                            !.pending_tasks = get_tasks(d, "pending")]
      [] k = 3 -> [s EXCEPT !.completed = Cardinality(get_tasks(d, "completed"))]
      [] k = 4 -> [s EXCEPT !.overdue = Cardinality(get_overdue_tasks(d, now)),
                            !.overdue_tasks = get_overdue_tasks(d, now)]
      [] k = 5 -> [s EXCEPT !.due_today = Cardinality(get_tasks_due_today(d, now)),
                            !.today_tasks = get_tasks_due_today(d, now)]

\* the next query of a get_tasks_summary call; the call returns after the fifth
Query ==
    /\ outcome.kind \in {"NotCalled", "running"}
    /\ \E k \in {Len(store_log) + 1} :
        /\ k <= Len(SummaryCalls)
        /\ store_log' = Append(store_log, Call(SummaryCalls[k], TRUE))
        /\ outcome' = Outcome(IF k = Len(SummaryCalls) THEN "return" ELSE "running",
                              "get_tasks_summary", 0, Returned(TRUE, 0),
                              ReadQuery(k, outcome.summary, db, clock))
    /\ UNCHANGED <<clock, utterance, phase, intent, parsed, db, response, llm_calls,
                   reference, sessions>>

SnapshotNext == StoreNext \/ Query

SnapshotSpec == StoreInit /\ [][SnapshotNext]_vars

----------------------------------------------------------------------------
(* Properties of the intent classifier (ParseSpec).                        *)

\* some member of the keyword set occurs in the lower-cased utterance
Mentions(keywords) == \E keyword \in keywords : Contains(Lower(utterance), keyword)

\* C1: the four keyword sets are tested in the order create, view, complete,
\* delete by case-insensitive substring containment and the first set with a
\* member in the utterance decides; every utterance with a create keyword is
\* create_task, whatever other keywords it holds
C1_FirstMatchingSetWins ==
    phase = "classified" =>
        /\ \A keyword \in {<<"r", "e", "m", "i", "n", "d", " ", "m", "e">>, <<"a", "d", "d">>, <<"c", "r", "e", "a", "t", "e">>, <<"n", "e", "w", " ", "t", "a", "s", "k">>,
                           <<"s", "c", "h", "e", "d", "u", "l", "e">>, <<"s", "e", "t">>} :
               Contains(Lower(utterance), keyword) => intent = "create_task"
        /\ Mentions(create_keywords) => intent = "create_task"
        /\ ~Mentions(create_keywords) /\ Mentions(view_keywords)
               => intent = "view_tasks"
        /\ ~Mentions(create_keywords) /\ ~Mentions(view_keywords)
               /\ Mentions(complete_keywords) => intent = "complete_task"
        /\ ~Mentions(create_keywords) /\ ~Mentions(view_keywords)
               /\ ~Mentions(complete_keywords) /\ Mentions(delete_keywords)
               => intent = "delete_task"

\* an utterance with a create keyword after a view and a delete keyword, one of
\* them in capitals, was classified create_task
C1_Witness ==
    /\ phase = "classified"
    /\ utterance \in {<<"S", "h", "o", "w", " ", "A", "d", "d">>, <<"d", "e", "l", "e", "t", "e", " ", "A", "d", "d">>}
    /\ intent = "create_task"

\* C2: classification is total and single-valued: the result is one of the five
\* intents, and it is general_chat exactly when no keyword of any set occurs
C2_TotalWithDefault ==
    phase = "classified" =>
        /\ intent \in {"create_task", "view_tasks", "complete_task",
                       "delete_task", "general_chat"}
        /\ intent = "general_chat" <=>
               ~(\/ Mentions(create_keywords) \/ Mentions(view_keywords)
                 \/ Mentions(complete_keywords) \/ Mentions(delete_keywords))

\* a non-empty utterance without any keyword was classified general_chat
C2_Witness ==
    /\ phase = "classified"
    /\ utterance = <<"h", "e", "l", "l", "o">>
    /\ intent = "general_chat"

----------------------------------------------------------------------------
(* Properties of the chat router (Spec).                                   *)

\* some store call of the last request raised
StoreFailed == \E k \in 1..Len(store_log) : ~store_log[k].ok

\* C3 as stated: the LLM is called only for the general_chat intent
C3_LlmOnlyForChat == llm_calls > 0 => intent = "general_chat"

\* C3 as the code has it: the LLM is called only for general_chat and, once the
\* task is stored and read back, for create_task; never for view_tasks,
\* complete_task or delete_task
C3_LlmOnlyForChatOrCreate ==
    /\ llm_calls > 0 => intent \in {"general_chat", "create_task"}
    /\ llm_calls > 0 /\ intent = "create_task" =>
           /\ response.action = "task_created"
           /\ store_log = <<Call("add_task", TRUE),
                            CallOn("get_task_by_id", response.task_id, TRUE)>>
    /\ intent \in {"view_tasks", "complete_task", "delete_task"} => llm_calls = 0

\* a create request that stored its task and then called the LLM
C3_Witness ==
    /\ intent = "create_task"
    /\ llm_calls = 1
    /\ response.task_id \in Ids(db)

\* C4 as stated: a failure of the store reaches the caller as the exception
C4_StoreFailureSurfaces == StoreFailed => response.kind = "raise"

\* C4 as the code has it: the handler's except clause turns a failure of the
\* store into a returned response with action error; the failed call is the
\* last store call of the request (no retry)
C4_StoreFailureReturnedAsError ==
    \A k \in 1..Len(store_log) :
        ~store_log[k].ok =>
            /\ k = Len(store_log)
            /\ response.kind = "return"
            /\ response.action = "error"

\* a delete request whose DELETE raised, with the task still stored
C4_Witness ==
    /\ intent = "delete_task"
    /\ store_log = <<CallOn("delete_task", 1, FALSE)>>
    /\ response.action = "error"
    /\ 1 \in Ids(db)

----------------------------------------------------------------------------
(* Properties of the temporal extractor (ParseSpec).                       *)

\* what the by, at and in patterns find in the lower-cased utterance
ByFound == by_search(Lower(utterance))
AtFound == at_search(Lower(utterance))
InFound == relative_search(Lower(utterance))

\* the expression the due date is taken from: the by expression, else the at
\* expression
ByExpr == Strip(ByFound.g1)
AtExpr == Strip(AtFound.g1)

\* the due date of the parse, or the exception that left it
DueOutcome ==
    IF parsed.kind = "dict" THEN parsed.due_date
    ELSE [kind |-> parsed.kind, iso |-> <<>>]

\* C5: parse_natural_language returns a complete record for every text and
\* never raises, whatever hour and minute a by/at expression holds
C5_ParseNeverRaises == phase = "parsed" => parsed.kind = "dict"

\* C6: the due date is absent exactly when no expression of the three families
\* (by, at, in) occurs in the text
C6_AbsentIffNoFamily ==
    phase = "parsed" /\ parsed.kind = "dict" =>
        (parsed.due_date = None <=>
            ~(ByFound.found \/ AtFound.found \/ InFound.found))

\* C7: with expressions of several families in the text the outcome is that of
\* the by expression, without one that of the at expression, and only without
\* both that of the in expression, wherever they stand in the text
C7_ByBeforeAtBeforeIn ==
    phase = "parsed" =>
        /\ ByFound.found => DueOutcome = _parse_time_expression(ByExpr, clock)
        /\ ~ByFound.found /\ AtFound.found
               => DueOutcome = _parse_time_expression(AtExpr, clock)
        /\ ~ByFound.found /\ ~AtFound.found /\ InFound.found
               => DueOutcome = _calculate_relative_time(IntOf(InFound.g1),
                                                        InFound.g2, clock)

\* an at expression stands before a by expression; the due date is the one of
\* the by expression
C7_Witness ==
    /\ phase = "parsed"
    /\ \E i, j \in 1..Len(utterance) :
           /\ i < j
           /\ StartsAt(utterance, i, <<"a", "t", " ", "3", " ", "p", "m">>)
           /\ StartsAt(utterance, j, <<"b", "y", " ", "t", "o", "d", "a", "y">>)
    /\ parsed.due_date = Str(<<clock.day, 18, 0, 0>>)

\* the expression the due date is taken from, when it is a clock time
ClockExpr == IF ByFound.found THEN ByExpr ELSE AtExpr
IsClockExpr == (ByFound.found \/ AtFound.found) /\ HasDigitAt(ClockExpr, 1)

\* hour, minute and am/pm of the clock time, and its hour on the 24-hour clock
ClockHour == IntOf(time_match(ClockExpr).g1)
ClockMinute == IntOf(time_match(ClockExpr).g2)
ClockPeriod == time_match(ClockExpr).g3
ClockHour24 ==
    IF ClockPeriod = <<"p", "m">> /\ ClockHour # 12 THEN ClockHour + 12
    ELSE IF ClockPeriod = <<"a", "m">> /\ ClockHour = 12 THEN 0
    ELSE ClockHour

\* whole seconds from day 0, 00:00:00 to the second of a datetime / an iso text
SecondsOf(d, h, m, sec) == ((d * 24 + h) * 60 + m) * 60 + sec

\* C8: a clock time H[:MM][am|pm] is read on the 12-hour convention, put on the
\* date of now with second 0, and moved one day on when that is not after now:
\* the due date is after now and at most 24 hours after it
C8_ClockTimeNextOccurrence ==
    phase = "parsed" /\ IsClockExpr /\ ClockHour24 <= 23 /\ ClockMinute <= 59 =>
        /\ parsed.kind = "dict"
        /\ parsed.due_date.kind = "str"
        /\ LET iso == parsed.due_date.iso
               due == SecondsOf(iso[1], iso[2], iso[3], iso[4])
               now == SecondsOf(clock.day, clock.hour, clock.minute, clock.second)
           IN  /\ Len(iso) = 4
               /\ iso[2] = ClockHour24 /\ iso[3] = ClockMinute /\ iso[4] = 0
               /\ due > now
               /\ due <= now + 24 * 3600

\* "at 3 pm" parsed at 2024-01-01T10:00:00 gave 2024-01-01T15:00:00
C8_Witness ==
    /\ phase = "parsed"
    /\ utterance = <<"r", "e", "m", "i", "n", "d", " ", "m", "e", " ", "t", "o", " ", "c", "a", "l", "l", " ", "m", "o", "m", " ", "a", "t", " ", "3", " ", "p", "m">>
    /\ clock = DateTime(0, 10, 0, 0, 0)
    /\ parsed.due_date = Str(<<0, 15, 0, 0>>)

\* C9: by tomorrow is the day after now at 09:00:00, whatever the time of now
C9_TomorrowAtNine ==
    phase = "parsed" /\ ByFound.found /\ ByExpr = <<"t", "o", "m", "o", "r", "r", "o", "w">> =>
        /\ parsed.kind = "dict"
        /\ parsed.due_date = Str(<<clock.day + 1, 9, 0, 0>>)

\* by tomorrow parsed one microsecond before midnight
C9_Witness ==
    /\ phase = "parsed"
    /\ utterance = <<"F", "i", "n", "i", "s", "h", " ", "r", "e", "p", "o", "r", "t", " ", "b", "y", " ", "t", "o", "m", "o", "r", "r", "o", "w">>
    /\ clock = DateTime(0, 23, 59, 59, 999999)
    /\ parsed.due_date = Str(<<1, 9, 0, 0>>)

\* C10: by today, at noon and at midnight are the day of now at 18:00:00,
\* 12:00:00 and 00:00:00 and are never moved to the next day
C10_FixedTimesNotRolled ==
    phase = "parsed" =>
        /\ ByFound.found /\ ByExpr = <<"t", "o", "d", "a", "y">>
               => DueOutcome = Str(<<clock.day, 18, 0, 0>>)
        /\ ~ByFound.found /\ AtFound.found /\ AtExpr = <<"n", "o", "o", "n">>
               => DueOutcome = Str(<<clock.day, 12, 0, 0>>)
        /\ ~ByFound.found /\ AtFound.found /\ AtExpr = <<"m", "i", "d", "n", "i", "g", "h", "t">>
               => DueOutcome = Str(<<clock.day, 0, 0, 0>>)

\* by today parsed at 18:30 gave a due date that is already past
C10_Witness ==
    /\ phase = "parsed"
    /\ utterance = <<"b", "u", "y", " ", "m", "i", "l", "k", " ", "b", "y", " ", "t", "o", "d", "a", "y">>
    /\ clock = DateTime(0, 18, 30, 0, 0)
    /\ parsed.due_date = Str(<<0, 18, 0, 0>>)
    /\ IsoLess(parsed.due_date.iso, isoformat(clock))

----------------------------------------------------------------------------
(* Properties of relative times (ParseSpec).                               *)

\* positions of the lower-cased utterance where  in <number> <word>  stands
InExprAt(i) ==
    LET t == Lower(utterance)
        n == SkipSpaces(t, i + 2)
        w == SkipSpaces(t, SkipDigits(t, n))
    IN  /\ StartsAt(t, i, <<"i", "n">>) /\ HasSpaceAt(t, i + 2)
        /\ HasDigitAt(t, n) /\ HasSpaceAt(t, SkipDigits(t, n))
        /\ w <= Len(t) /\ IsWord(t[w])

\* the amount and the unit word of the expression at i
InAmount(i) ==
    LET t == Lower(utterance)
        n == SkipSpaces(t, i + 2)
    IN  IntOf(SubSeq(t, n, SkipDigits(t, n) - 1))
InUnit(i) ==
    LET t == Lower(utterance)
        w == SkipSpaces(t, SkipDigits(t, SkipSpaces(t, i + 2)))
    IN  SubSeq(t, w, SkipWord(t, w) - 1)

\* seconds of one unit, 0 for a word that is not a unit of the three
UnitSeconds(unit) ==
    IF unit \in {<<"m", "i", "n", "u", "t", "e">>, <<"m", "i", "n", "u", "t", "e", "s">>} THEN 60
    ELSE IF unit \in {<<"h", "o", "u", "r">>, <<"h", "o", "u", "r", "s">>} THEN 3600
    ELSE IF unit \in {<<"d", "a", "y">>, <<"d", "a", "y", "s">>} THEN 86400
    ELSE 0

InExprs == {i \in 1..Len(utterance) : InExprAt(i)}
KnownInExprs == {i \in InExprs : UnitSeconds(InUnit(i)) # 0}

\* C11: without a by or at expression, in N minutes|hours|days (singular or
\* plural) is exactly now + N*60 s, N*3600 s, N*86400 s, and in N <word> with
\* any other word is absent, never a failure
C11_RelativeExact ==
    phase = "parsed" /\ ~ByFound.found /\ ~AtFound.found /\ InExprs # {} =>
        IF KnownInExprs # {}
        THEN DueOutcome =
                 Str(isoformat(PlusSeconds(clock,
                     InAmount(Min(KnownInExprs)) * UnitSeconds(InUnit(Min(KnownInExprs))))))
        ELSE DueOutcome = None

\* C12: every due date that is returned, of the by, at and in families alike,
\* has second precision: no sub-second component, whatever that of now
C12_SecondPrecision ==
    phase = "parsed" /\ parsed.kind = "dict" /\ parsed.due_date.kind = "str" =>
        Len(parsed.due_date.iso) = 4

\* C13: two calls of parse_natural_language with the same utterance return the
\* same record, whenever the second call is made
C13_SameUtteranceSameRecord ==
    [][phase' = "reparsed" => parsed' = parsed]_vars

----------------------------------------------------------------------------
(* Properties of the attribute extractor and the title cleaner (ParseSpec).*)

\* some keyword of the named priority occurs in the lower-cased utterance
PriorityMentioned(name) ==
    \E k \in 1..Len(priority_keywords) :
        /\ priority_keywords[k][1] = name
        /\ \E keyword \in priority_keywords[k][2] : Contains(Lower(utterance), keyword)

\* C14: the priority is high if a high keyword occurs in the text, else medium
\* if a medium keyword occurs, else low if a low keyword occurs; without any
\* keyword the extractor returns None and the record's priority is medium
C14_HighMediumLow ==
    phase = "parsed" =>
        LET expected == IF PriorityMentioned("high") THEN "high"
                        ELSE IF PriorityMentioned("medium") THEN "medium"
                        ELSE IF PriorityMentioned("low") THEN "low"
                        ELSE "None"
        IN  /\ _extract_priority(Lower(utterance)) = expected
            /\ parsed.kind = "dict" =>
                   parsed.priority = IF expected = "None" THEN "medium" ELSE expected

\* a low keyword stands before a high keyword and the record's priority is high
C14_Witness ==
    /\ phase = "parsed"
    /\ utterance = <<"o", "p", "t", "i", "o", "n", "a", "l", " ", "b", "u", "t", " ", "u", "r", "g", "e", "n", "t">>
    /\ parsed.kind = "dict"
    /\ parsed.priority = "high"

\* C15: the title of every returned record is non-empty when the utterance has
\* a character that is not whitespace, also when the utterance is whitespace
\* followed by a date phrase
C15_TitleNonEmpty ==
    phase = "parsed" /\ parsed.kind = "dict"
        /\ (\E i \in 1..Len(utterance) : ~IsSpace(utterance[i]))
        => parsed.title # <<>>

\* the expression the due date was resolved from, as it stands in the
\* lower-cased utterance (the words of the texts are one blank apart)
DueExpr ==
    IF ByFound.found THEN <<"b", "y", " ">> \o ByExpr
    ELSE IF AtFound.found THEN <<"a", "t", " ">> \o AtExpr
    ELSE <<"i", "n", " ">> \o InFound.g1 \o <<" ">> \o InFound.g2

\* C16: when a due date was resolved from a by/at/in expression the title no
\* longer holds that expression, wherever it stood in the utterance; when no
\* due date was resolved the title is the trimmed utterance
C16_TitleWithoutExpression ==
    phase = "parsed" /\ parsed.kind = "dict" =>
        /\ parsed.due_date.kind = "str" => ~Contains(Lower(parsed.title), DueExpr)
        /\ parsed.due_date = None => parsed.title = Strip(utterance)

\* positions of the utterance where word (any letter case) stands, followed by
\* whitespace and then by some text
WordThenText(word) ==
    {i \in 1..Len(utterance) :
        /\ StartsAtI(utterance, i, word)
        /\ HasSpaceAt(utterance, i + Len(word))
        /\ SkipSpaces(utterance, i + Len(word)) <= Len(utterance)}

\* the text after the first such word, up to the first following whitespace
\* that is followed by  by, at or in,  or to the end of the utterance
TextAfterFirst(word) ==
    LET g == SkipSpaces(utterance, Min(WordThenText(word)) + Len(word))
        stops == {e \in (g + 1)..Len(utterance) :
                     /\ IsSpace(utterance[e])
                     /\ \E w \in {<<"b", "y">>, <<"a", "t">>, <<"i", "n">>} :
                            StartsAtI(utterance, SkipSpaces(utterance, e), w)}
    IN  SubSeq(utterance, g, Min(stops \cup {Len(utterance) + 1}) - 1)

\* C17: the description is the text after the first  to  up to the first
\* following  by, at, in  or the end; only without a  to <text>  it is the text
\* after the first  about,  also when about stands before to; without both it
\* is empty
C17_ToBeforeAbout ==
    phase = "parsed" /\ parsed.kind = "dict" =>
        parsed.description =
            IF WordThenText(<<"t", "o">>) # {} THEN Strip(TextAfterFirst(<<"t", "o">>))
            ELSE IF WordThenText(<<"a", "b", "o", "u", "t">>) # {} THEN Strip(TextAfterFirst(<<"a", "b", "o", "u", "t">>))
            ELSE <<>>

\* about stands before to and the description is the text after to
C17_Witness ==
    /\ phase = "parsed"
    /\ utterance = <<"t", "a", "l", "k", " ", "a", "b", "o", "u", "t", " ", "p", "l", "a", "n", " ", "t", "o", " ", "c", "a", "l", "l", " ", "b", "o", "b", " ", "b", "y", " ", "5">>
    /\ parsed.kind = "dict"
    /\ parsed.description = <<"c", "a", "l", "l", " ", "b", "o", "b">>

----------------------------------------------------------------------------
(* Properties of the reference resolver (ParseSpec).                       *)

\* the number whose digits start at position j of the utterance
NumberAt(j) == IntOf(SubSeq(utterance, j, SkipDigits(utterance, j) - 1))

\* where the digits of a  task N / task #N  form and of a  #N  form start
TaskForms ==
    {j \in 1..Len(utterance) :
        /\ IsDigit(utterance[j])
        /\ \E i \in 1..(j - 1) :
               /\ StartsAtI(utterance, i, <<"t", "a", "s", "k">>)
               /\ \/ SkipSpaces(utterance, i + 4) = j
                  \/ /\ SkipSpaces(utterance, i + 4) = j - 1
                     /\ utterance[j - 1] = "#"}
HashForms ==
    {j \in 2..Len(utterance) : IsDigit(utterance[j]) /\ utterance[j - 1] = "#"}
Digits == {j \in 1..Len(utterance) : IsDigit(utterance[j])}

\* C18: the id is the number of the first task N form if there is one, else of
\* the first #N form, else the first number of the utterance; it is absent
\* exactly when the utterance holds no digit
C18_TaskThenHashThenBare ==
    phase = "resolved" =>
        /\ reference = IF TaskForms # {} THEN NumberAt(Min(TaskForms))
                       ELSE IF HashForms # {} THEN NumberAt(Min(HashForms))
                       ELSE IF Digits # {} THEN NumberAt(Min(Digits))
                       ELSE -1
        /\ reference = -1 <=> Digits = {}

\* #5 stands before task 3 and the id is 3
C18_Witness ==
    /\ phase = "resolved"
    /\ utterance = <<"#", "5", " ", "t", "h", "e", "n", " ", "t", "a", "s", "k", " ", "3">>
    /\ reference = 3

----------------------------------------------------------------------------
(* Properties of the routing (Spec).                                       *)

\* the calls of one store method in the log of a request
CallsOf(log, op) == {k \in 1..Len(log) : log[k].op = op}

\* the row add_task stores for a parsed record
RowOf(parsed_task) ==
    [title |-> parsed_task.title, description |-> parsed_task.description,
     due_date |-> parsed_task.due_date, priority |-> parsed_task.priority,
     status |-> "pending"]

\* C19: a create_task request makes exactly one store create, with the parsed
\* record; a complete_task or delete_task request whose reference resolves to an
\* integer makes exactly one store update/delete with that id; without an id
\* the response is an error and the store is unchanged; the resolver is
\* consulted only for complete_task and delete_task
C19_RoutesByIntent ==
    [][clock' = clock =>
        /\ intent' = "create_task" =>
               /\ Cardinality(CallsOf(store_log', "add_task")) = 1
               /\ store_log'[1].ok =>
                      /\ Ids(db') = Ids(db) \cup {db.seq + 1}
                      /\ db'.tasks[db.seq + 1] = RowOf(ParsedAt[utterance', clock])
                      /\ \A i \in Ids(db) : db'.tasks[i] = db.tasks[i]
        /\ intent' = "complete_task" /\ reference' >= 0 =>
               /\ store_log' \in {<<CallOn("update_task", reference', ok)>> : ok \in BOOLEAN}
               /\ store_log'[1].ok =>
                      db' = update_task_status(db, reference', "completed").db
        /\ intent' = "delete_task" /\ reference' >= 0 =>
               /\ store_log' \in {<<CallOn("delete_task", reference', ok)>> : ok \in BOOLEAN}
               /\ store_log'[1].ok => db' = delete_task(db, reference').db
        /\ intent' \in {"complete_task", "delete_task"} /\ reference' = -1 =>
               /\ response'.action = "error"
               /\ store_log' = <<>>
               /\ db' = db
        /\ reference' # NotConsulted => intent' \in {"complete_task", "delete_task"}
        /\ intent' \in {"complete_task", "delete_task"} => reference' # NotConsulted
      ]_vars

----------------------------------------------------------------------------
(* Properties of the store under concurrent sessions (StoreSpec).          *)

\* the calls of the sessions in the sequence order run one after the other on
\* the database d: the database left and the results in that order
RECURSIVE RunInOrder(_, _)
RunInOrder(d, order) ==
    IF order = <<>> THEN [db |-> d, results |-> <<>>]
    ELSE LET first == Statement(d, sessions[Head(order)].op, sessions[Head(order)].task_id)
             rest == RunInOrder(first.db, Tail(order))
         IN  [db |-> rest.db, results |-> <<first.result>> \o rest.results]

\* the sequences that hold every session of S once
OrdersOf(S) ==
    {order \in [1..Cardinality(S) -> S] :
        \A i, j \in 1..Cardinality(S) : order[i] = order[j] => i = j}

\* C20: the store and the results of the calls that returned are those of
\* running these calls one after the other in some order, from the store the
\* sessions started on; a call that has not committed, or that raised, has left
\* nothing in the store
C20_SerializablePerTask ==
    LET returned == {s \in Sessions : sessions[s].pc = "returned"}
    IN  \E order \in OrdersOf(returned) :
            LET serial == RunInOrder(StoreStart, order)
            IN  /\ serial.db = db
                /\ \A k \in 1..Len(order) :
                       serial.results[k] = sessions[order[k]].result

\* both sessions deleted task 1 and exactly one of them returned True
C20_Witness ==
    /\ \A s \in Sessions :
           /\ sessions[s].pc = "returned"
           /\ sessions[s].op = "delete_task"
           /\ sessions[s].task_id = 1
    /\ Cardinality({s \in Sessions : sessions[s].result.ok}) = 1
    /\ 1 \notin Ids(db)


----------------------------------------------------------------------------
(* C21: what the id-taking methods return for an id the store lacks.       *)

\* the methods of TaskManager that take the id of a task
IdMethods == {"mark_task_complete", "update_task_priority", "delete_task"}

\* a step that is a direct call of one of the id-taking methods
IdMethodCalled == clock' = clock /\ outcome'.op \in IdMethods

\* the requests of the chat that complete or delete the task with this id
RequestsFor(task_id) ==
    {u \in Utterances : /\ IntentOf[u] \in {"complete_task", "delete_task"}
                        /\ RefOf[u] = task_id}

\* C21: mark_task_complete, update_task_priority and delete_task return True
\* exactly when a task with the given id exists; when they return False the
\* store is left as it was, and a chat request for that task answers with the
\* action error, never task_completed or task_deleted, and changes nothing
C21_TrueIffExists ==
    [][IdMethodCalled =>
        /\ outcome'.kind = "return"
        /\ outcome'.value.ok <=> outcome'.task_id \in Ids(db)
        /\ ~outcome'.value.ok =>
            /\ db' = db
            /\ \A u \in RequestsFor(outcome'.task_id) :
                \A r \in {Dispatch(IntentOf[u], u, clock, db', 0, TRUE)} :
                    /\ r.response.action = "error"
                    /\ r.db = db']_vars

\* a delete of task 1 that found no such task while another task is stored,
\* and a chat request that names task 1
C21_Witness ==
    /\ outcome.op = "delete_task" /\ outcome.task_id = 1 /\ ~outcome.value.ok
    /\ Ids(db) = {2}
    /\ RequestsFor(1) # {}


----------------------------------------------------------------------------
(* C22: what add_task_from_natural_language stores and returns.            *)

\* a step that is a direct call of add_task_from_natural_language that returned
AddReturned ==
    /\ clock' = clock
    /\ outcome'.op = "add_task_from_natural_language"
    /\ outcome'.kind = "return"

\* C22: a call of add_task_from_natural_language that returns has stored
\* exactly one new task, with the fields of the parse record and status
\* pending, and leaves every other task as it was; the id it returns is larger than the store's sequence, which no
\* step lowers and which every returned id has reached, so the id differs from
\* every id returned before, those of deleted tasks included
C22_OneNewTaskFreshId ==
    [][/\ db'.seq >= db.seq
       /\ AddReturned =>
            \E id \in {outcome'.value.lastrowid} :
                \E parsed_task \in {ParsedAt[utterance', clock]} :
                    /\ id > db.seq /\ id = db'.seq
                    /\ id \notin Ids(db)
                    /\ Ids(db') = Ids(db) \cup {id}
                    /\ \A i \in Ids(db) : db'.tasks[i] = db.tasks[i]
                    /\ db'.tasks[id] = [title |-> parsed_task.title,
                                        description |-> parsed_task.description,
                                        due_date |-> parsed_task.due_date,
                                        priority |-> parsed_task.priority,
                                        status |-> "pending"]]_vars

\* task 1 was added and deleted, and the next add returned 2, not 1 again
C22_Witness ==
    /\ outcome.op = "add_task_from_natural_language" /\ outcome.kind = "return"
    /\ outcome.value.lastrowid = 2
    /\ Ids(db) = {2}


----------------------------------------------------------------------------
(* C23: the priority of every parse record, and the record of an utterance *)
(* without a due date.                                                     *)

\* C23: in every record parse_natural_language returns the priority is low,
\* medium or high; when no due date is resolved the due_date is absent and the
\* title is the raw utterance, trimmed and otherwise unchanged, and the task
\* add_task_from_natural_language stores from the record has no due date
C23_PriorityAndUncleanedTitle ==
    (phase = "parsed" /\ parsed.kind = "dict") =>
        /\ parsed.priority \in {"low", "medium", "high"}
        /\ parsed.due_date.kind \in {"None", "str"}
        /\ parsed.due_date.kind = "None" =>
            /\ parsed.due_date = None
            /\ parsed.title = Strip(utterance)
            /\ \A added \in {add_task_from_natural_language(parsed, EmptyDb)} :
                /\ added.db.tasks[added.lastrowid].due_date = None
                /\ added.db.tasks[added.lastrowid].title = Strip(utterance)

\* a record without a due date whose utterance has words the title cleaner
\* would have removed, and that needed trimming
C23_Witness ==
    /\ phase = "parsed" /\ parsed.kind = "dict"
    /\ parsed.due_date = None
    /\ _clean_title_from_date(utterance) # Strip(utterance)
    /\ Strip(utterance) # utterance
    /\ parsed.title = Strip(utterance)


----------------------------------------------------------------------------
(* C24: what mark_task_complete changes.                                   *)

\* a step that is a direct call of mark_task_complete on a stored task
CompleteCalledOnStored ==
    /\ clock' = clock
    /\ outcome'.op = "mark_task_complete"
    /\ outcome'.task_id \in Ids(db)

\* C24: mark_task_complete on a stored task returns True and sets the status
\* of that task to completed; the title, description, due_date and priority of
\* the task, its id and every other task stay as they were; on a task that is
\* completed already it returns True again and changes nothing
C24_CompleteFrame ==
    [][CompleteCalledOnStored =>
        \E id \in {outcome'.task_id} :
            /\ outcome'.value.ok
            /\ Ids(db') = Ids(db) /\ db'.seq = db.seq
            /\ db'.tasks[id] = [db.tasks[id] EXCEPT !.status = "completed"]
            /\ \A i \in Ids(db) \ {id} : db'.tasks[i] = db.tasks[i]
            /\ db.tasks[id].status = "completed" => db' = db]_vars

\* task 1 was completed, last by a call that returned True, next to a task
\* that is still pending
C24_Witness ==
    /\ outcome.op = "mark_task_complete" /\ outcome.task_id = 1 /\ outcome.value.ok
    /\ Ids(db) = {1, 2}
    /\ db.tasks[1].status = "completed"
    /\ db.tasks[2].status = "pending"


----------------------------------------------------------------------------
(* C25: requests that only read the store.                                 *)

\* a step that is a request process_user_input classified as view_tasks or
\* general_chat
ReadOnlyRequest ==
    /\ clock' = clock
    /\ response'.kind = "return"
    /\ intent' \in {"view_tasks", "general_chat"}

\* C25: handling a view_tasks or general_chat utterance never creates, updates
\* or deletes a task: the stored tasks, all their fields and the id sequence are
\* the same before and after process_user_input
C25_ViewAndChatReadOnly ==
    [][ReadOnlyRequest => db' = db]_vars

\* a summary was displayed for a store that holds a task, and the store call
\* log of the request has the five queries and nothing else
C25_Witness ==
    /\ intent = "view_tasks" /\ response.action = "tasks_displayed"
    /\ response.summary.total = 1
    /\ Ids(db) = {2}
    /\ Len(store_log) = 5


----------------------------------------------------------------------------
(* C26: the life of a task's status.                                       *)

\* from the store d to the store e: every task has status pending or completed
\* in e, a task that e has and d lacks is pending, and a task completed in d is
\* completed in e or gone from it
StatusKept(d, e) ==
    /\ \A i \in Ids(e) : e.tasks[i].status \in {"pending", "completed"}
    /\ \A i \in Ids(e) \ Ids(d) : e.tasks[i].status = "pending"
    /\ \A i \in Ids(d) \cap Ids(e) :
        d.tasks[i].status = "completed" => e.tasks[i].status = "completed"

\* every request process_user_input can serve on the store d, with every
\* failure of a store call and of the LLM, keeps the statuses
RequestsKeepStatus(d, now) ==
    \A u \in Utterances :
        \A fault \in 0..StoreCallsOf(IntentOf[u]), llm_ok \in BOOLEAN :
            \A r \in {Dispatch(IntentOf[u], u, now, d, fault, llm_ok)} :
                StatusKept(d, r.db)

\* C26: after any sequence of create, complete, change priority and delete
\* every stored task has status pending or completed; a task is created
\* pending, and a completed task stays completed until it is deleted, under the
\* methods of TaskManager and under every request of process_user_input
C26_CompletedStaysCompleted ==
    /\ [](StatusKept(db, db) /\ RequestsKeepStatus(db, clock))
    /\ [][StatusKept(db, db')]_vars

\* the priority of task 1 was changed after the task was completed
C26_Witness ==
    /\ outcome.op = "update_task_priority" /\ outcome.task_id = 1 /\ outcome.value.ok
    /\ db.tasks[1].status = "completed"
    /\ db.tasks[1].priority = "high"


----------------------------------------------------------------------------
(* C27: the summary of a store nobody else is writing to.                  *)

\* C27: in every summary get_tasks_summary returns while no other session
\* writes, the overdue tasks and the tasks due today are among the pending
\* tasks, none of them is completed, overdue <= pending, due_today <= pending
\* and pending + completed = total (all statuses being pending or completed)
C27_SummaryWithinPending ==
    outcome.op = "get_tasks_summary" =>
        /\ outcome.summary.total = Cardinality(Ids(db))
        /\ outcome.summary.overdue_tasks \subseteq outcome.summary.pending_tasks
        /\ outcome.summary.today_tasks \subseteq outcome.summary.pending_tasks
        /\ \A i \in outcome.summary.overdue_tasks \cup outcome.summary.today_tasks :
            db.tasks[i].status # "completed"
        /\ outcome.summary.overdue <= outcome.summary.pending
        /\ outcome.summary.due_today <= outcome.summary.pending
        /\ outcome.summary.pending + outcome.summary.completed = outcome.summary.total

\* a summary taken in the evening of two tasks that were due at 3 pm, one of
\* them completed: one task is overdue, not two
C27_Witness ==
    /\ outcome.op = "get_tasks_summary"
    /\ Ids(db) = {1, 2}
    /\ \A i \in Ids(db) : /\ db.tasks[i].due_date.kind = "str"
                          /\ IsoLess(db.tasks[i].due_date.iso, isoformat(clock))
    /\ db.tasks[1].status = "completed"
    /\ outcome.summary.overdue_tasks = {2}
    /\ outcome.summary.today_tasks = {2}
    /\ outcome.summary.total = 2


----------------------------------------------------------------------------
(* C28: the summary taken while other sessions write.                      *)

\* C28 as stated: every summary get_tasks_summary returns, also while another
\* session creates, completes or deletes tasks, has pending + completed <= total,
\* overdue <= pending and due_today <= pending
C28_ConsistentSnapshot ==
    (outcome.op = "get_tasks_summary" /\ outcome.kind = "return") =>
        /\ outcome.summary.pending + outcome.summary.completed <= outcome.summary.total
        /\ outcome.summary.overdue <= outcome.summary.pending
        /\ outcome.summary.due_today <= outcome.summary.pending

\* what the five queries do give: each count is the count of some store that was
\* committed while the call ran, so no count exceeds the number of ids issued
C28_CountsOfCommittedStores ==
    (outcome.op = "get_tasks_summary" /\ outcome.kind = "return") =>
        /\ outcome.summary.total <= db.seq
        /\ outcome.summary.pending <= db.seq
        /\ outcome.summary.completed <= db.seq
        /\ outcome.summary.overdue_tasks \subseteq 1..db.seq


----------------------------------------------------------------------------
(* C29: the responses of process_user_input.                               *)

\* the intents process_user_input has a handler branch for (lines 90-99)
HandledIntents ==
    {"create_task", "view_tasks", "complete_task", "delete_task", "general_chat"}

\* the intents _classify_intent gives over all the texts
ClassifiedIntents == {_classify_intent(Lower(u)) : u \in Texts}

\* C29: process_user_input never raises: whatever the parser, the store or the
\* LLM did, it returns a response, and the action of the response is one of
\* task_created, tasks_displayed, task_completed, task_deleted,
\* general_response and error; _classify_intent returns only the five handled
\* intents, so the clarification_needed response is never given
C29_AlwaysAHandledResponse ==
    /\ ClassifiedIntents \subseteq HandledIntents
    /\ intent # "NotCalled" =>
        /\ intent \in HandledIntents
        /\ response.kind = "return"
        /\ response.action \in {"task_created", "tasks_displayed", "task_completed",
                                "task_deleted", "general_response", "error"}
        /\ response.action # "clarification_needed"

\* a request whose third store query raised and that still got a response
C29_Witness ==
    /\ intent = "view_tasks"
    /\ Len(store_log) = 3 /\ ~store_log[3].ok
    /\ response.kind = "return" /\ response.action = "error"


----------------------------------------------------------------------------
(* C30: task creation and the LLM.                                         *)

\* a step that is a request process_user_input handed to _handle_create_task
CreateRequest ==
    /\ clock' = clock
    /\ response'.kind = "return"
    /\ intent' = "create_task"

\* C30: the create handler asks the LLM only after the task is stored; when
\* the LLM fails the task stays stored and the response is task_created with
\* the new id, as when the LLM answers, only the message differs; an error
\* response of the create handler means the parse raised or a store call did
C30_CreationSurvivesLlmFailure ==
    [][CreateRequest =>
        /\ llm_calls' > 0 =>
            /\ response'.action = "task_created"
            /\ response'.task_id \notin Ids(db)
            /\ Ids(db') = Ids(db) \cup {response'.task_id}
            /\ store_log' = <<Call("add_task", TRUE),
                              CallOn("get_task_by_id", response'.task_id, TRUE)>>
            /\ response'.message \in {"llm_text", "llm_unavailable"}
        /\ response'.action = "task_created" => llm_calls' = 1
        /\ response'.action = "error" =>
            /\ llm_calls' = 0
            /\ \/ ParsedAt[utterance', clock].kind # "dict"
               \/ \E k \in 1..Len(store_log') : ~store_log'[k].ok]_vars

\* the LLM failed on the second creation and task 2 is stored and reported
C30_Witness ==
    /\ intent = "create_task"
    /\ response.action = "task_created" /\ response.message = "llm_unavailable"
    /\ response.task_id = 2
    /\ 2 \in Ids(db) /\ db.tasks[2].status = "pending"

====
